---- MODULE Spec2Model ----
(***************************************************************************)
(* Storage composition layer (server/composer.go, server/boltdb/composer.go *)
(* and the in-memory composer) and the MongoDB user storage of identifo.    *)
(*                                                                          *)
(* Two state machines share the module:                                     *)
(*   ComposerSpec - building partial composers, merging them with           *)
(*                  server.NewComposer and running Compose;                 *)
(*   StorageSpec  - the operations of mongo.UserStorage on one collection.  *)
(***************************************************************************)
EXTENDS Integers, Sequences, FiniteSets, TLC

\* Go's nil (function values, interfaces, errors).  Every value that can be
\* nil is a record, so that it compares with Nil.
Nil == [nil |-> TRUE]

\* A package-level Go function used as a value.
Func(name) == [func |-> name]

(***************************************************************************)
(* Bounds of the model.                                                     *)
(***************************************************************************)
\* Longest list of partial composers handed to server.NewComposer.
MaxPartials == 2

\* How many users the collection ever receives (ObjectIDs 1..MaxUsers).
MaxUsers == 2

\* Longest array ImportJSON is given.
MaxImport == 2

\* Largest skip and largest limit FetchUsers is called with.
MaxSkip == 1
MaxLimit == 2

\* How many logins of one user UpdateLoginMetadata records.
MaxLogins == 2

(***************************************************************************)
(* Part 1.  Composers                                                       *)
(***************************************************************************)
VARIABLES
    settings,   \* model.ServerSettings: Storage.<category>.Type and Algorithm
    plugins,    \* shared.Plugins: the plugin-supplied UserStorage or Nil
    partials,   \* the partial composers built so far, in list order
    composer,   \* server.Composer built by server.NewComposer, or Nil
    dc,         \* boltdb/fake DatabaseComposer built by their NewComposer, or Nil
    failing,    \* the callees that return an error in the Compose that ran
    result,     \* what Compose gave back to its caller, or Nil before it ran
    invoked     \* the steps Compose executed, in execution order

composerVars ==
    <<settings, plugins, partials, composer, dc, failing, result, invoked>>

(***************************************************************************)
(* Part 2.  mongo.UserStorage                                               *)
(***************************************************************************)
VARIABLES
    users,      \* the documents of the Users collection
    nextID,     \* how many ObjectIDs were stored so far
    ret,        \* the last operation, its arguments and what it returned
    calls       \* per goroutine: the call it is in the middle of, or Nil

storageVars == <<users, nextID, ret, calls>>

(***************************************************************************)
(* The demo host (cmd/demo): main and the plugin subprocess (Part 8)        *)
(***************************************************************************)
VARIABLES
    hostPC,     \* the statement of main the host process is at, or "exited"
    deferred,   \* the calls main has deferred, the last deferred first
    subprocess  \* the plugin process: "not started", "running" or "killed"

hostVars == <<hostPC, deferred, subprocess>>

\* The goroutines that call the storage concurrently.
Procs == {"g1", "g2"}

vars == <<composerVars, storageVars, hostVars>>

\* Backend families a storage category can be configured with (model.DBType*).
DBTypeBoltDB == "DBTypeBoltDB"
DBTypeFake == "DBTypeFake"
DBTypeMongoDB == "DBTypeMongoDB"
DBTypes == {DBTypeBoltDB, DBTypeFake, DBTypeMongoDB}

\* The categories a partial composer selects by settings.<category>.Type.
SettingsCategories ==
    {"AppStorage", "TokenStorage", "TokenBlacklist", "VerificationCodeStorage"}

\* jwt.StrToTokenSignAlg: the fixed name-to-algorithm mapping.
StrToTokenSignAlg == [es256 |-> "TokenSignAlgES256", rs256 |-> "TokenSignAlgRS256"]

\* Algorithm names a configuration file may carry.
AlgorithmNames == {"es256", "rs256", "hs256"}

\* The storage instance of the plugin process, when one was dispensed.
PluginUserStorage == [storage |-> "UserStorage", from |-> "plugin"]

AllSettings ==
    [Storage : [SettingsCategories -> DBTypes], Algorithm : AlgorithmNames]

(***************************************************************************)
(* Partial composers.  A partial composer is a pointer; `id` stands for its *)
(* identity, so that the closures two composers hand out differ.            *)
(***************************************************************************)

\* boltdb.NewPartialComposer with the copy-paste slip of testing the token
\* storage's type where the token blacklist's type is meant.
boltdb_NewPartialComposer_WrongField(id, s, plug) ==
    [ id |-> id, family |-> DBTypeBoltDB, db |-> [db |-> "bolt.DB"],
      userStorage |-> plug.UserStorage,
      newAppStorage |->
          IF s.Storage["AppStorage"] = DBTypeBoltDB
          THEN Func("boltdb.NewAppStorage") ELSE Nil,
      newTokenStorage |->
          IF s.Storage["TokenStorage"] = DBTypeBoltDB
          THEN Func("boltdb.NewTokenStorage") ELSE Nil,
      newTokenBlacklist |->
          IF s.Storage["TokenStorage"] = DBTypeBoltDB
          THEN Func("boltdb.NewTokenBlacklist") ELSE Nil,
      newVerificationCodeStorage |->
          IF s.Storage["VerificationCodeStorage"] = DBTypeBoltDB
          THEN Func("boltdb.NewVerificationCodeStorage") ELSE Nil ]

\* boltdb.NewPartialComposer, on the path where boltdb.InitDB succeeds and no
\* option is passed.
boltdb_NewPartialComposer(id, s, plug) ==
    [ id |-> id, family |-> DBTypeBoltDB, db |-> [db |-> "bolt.DB"],
      userStorage |-> plug.UserStorage,
      newAppStorage |->
          IF s.Storage["AppStorage"] = DBTypeBoltDB
          THEN Func("boltdb.NewAppStorage") ELSE Nil,
      newTokenStorage |->
          IF s.Storage["TokenStorage"] = DBTypeBoltDB
          THEN Func("boltdb.NewTokenStorage") ELSE Nil,
      newTokenBlacklist |->
          IF s.Storage["TokenBlacklist"] = DBTypeBoltDB
          THEN Func("boltdb.NewTokenBlacklist") ELSE Nil,
      newVerificationCodeStorage |->
          IF s.Storage["VerificationCodeStorage"] = DBTypeBoltDB
          THEN Func("boltdb.NewVerificationCodeStorage") ELSE Nil ]

\* fake.NewPartialComposer with no option passed.  It takes no plugins and
\* leaves its userStorage field at the zero value.
fake_NewPartialComposer(id, s) ==
    [ id |-> id, family |-> DBTypeFake, db |-> Nil,
      userStorage |-> Nil,
      newAppStorage |->
          IF s.Storage["AppStorage"] = DBTypeFake
          THEN Func("mem.NewAppStorage") ELSE Nil,
      newTokenStorage |->
          IF s.Storage["TokenStorage"] = DBTypeFake
          THEN Func("mem.NewTokenStorage") ELSE Nil,
      newTokenBlacklist |->
          IF s.Storage["TokenBlacklist"] = DBTypeFake
          THEN Func("mem.NewTokenBlacklist") ELSE Nil,
      newVerificationCodeStorage |->
          IF s.Storage["VerificationCodeStorage"] = DBTypeFake
          THEN Func("mem.NewVerificationCodeStorage") ELSE Nil ]

\* The closure an accessor returns: it captures the partial composer pc and
\* calls the constructor fn (with pc.db for BoltDB).
Closure(pc, fn) == [pc |-> pc.id, fn |-> fn]

\* PartialDatabaseComposer.AppStorageComposer (both families).
AppStorageComposer(pc) ==
    IF pc.newAppStorage # Nil THEN Closure(pc, pc.newAppStorage) ELSE Nil

\* PartialDatabaseComposer.TokenStorageComposer.
TokenStorageComposer(pc) ==
    IF pc.newTokenStorage # Nil THEN Closure(pc, pc.newTokenStorage) ELSE Nil

\* PartialDatabaseComposer.TokenBlacklistComposer.
TokenBlacklistComposer(pc) ==
    IF pc.newTokenBlacklist # Nil THEN Closure(pc, pc.newTokenBlacklist) ELSE Nil

\* PartialDatabaseComposer.VerificationCodeStorageComposer.
VerificationCodeStorageComposer(pc) ==
    IF pc.newVerificationCodeStorage # Nil
    THEN Closure(pc, pc.newVerificationCodeStorage) ELSE Nil

\* PartialDatabaseComposer.UserStorageComposer: the interface declares it and
\* server.NewComposer calls it; it hands out the composer's userStorage (the
\* plugin's instance) when there is one.
UserStorageComposer(pc) ==
    IF pc.userStorage # Nil
    THEN [pc |-> pc.id, fn |-> Func("pc.userStorage"), storage |-> pc.userStorage]
    ELSE Nil

(***************************************************************************)
(* server.NewComposer and Composer.Compose                                  *)
(***************************************************************************)

\* The zero-valued Composer of line 93: &Composer{settings: settings}.
EmptyComposer(s) ==
    [ settings |-> s,
      newAppStorage |-> Nil,
      newUserStorage |-> Nil,
      newTokenStorage |-> Nil,
      newVerificationCodeStorage |-> Nil ]

\* One round of the loop of server.NewComposer (lines 96-107).
MergePartial(c, pc) ==
    [ settings |-> c.settings,
      newAppStorage |->
          IF AppStorageComposer(pc) # Nil
          THEN AppStorageComposer(pc) ELSE c.newAppStorage,
      newUserStorage |->
          IF UserStorageComposer(pc) # Nil
          THEN UserStorageComposer(pc) ELSE c.newUserStorage,
      newTokenStorage |->
          IF TokenStorageComposer(pc) # Nil
          THEN TokenStorageComposer(pc) ELSE c.newTokenStorage,
      newVerificationCodeStorage |->
          IF VerificationCodeStorageComposer(pc) # Nil
          THEN VerificationCodeStorageComposer(pc)
          ELSE c.newVerificationCodeStorage ]

RECURSIVE MergeAll(_, _)
\* The loop over partialComposers (line 95), first to last.
MergeAll(c, pcs) ==
    IF pcs = <<>> THEN c ELSE MergeAll(MergePartial(c, Head(pcs)), Tail(pcs))

\* One round of a merge in which a slot that is already filled is kept.
MergePartial_KeepFirst(c, pc) ==
    [ settings |-> c.settings,
      newAppStorage |->
          IF c.newAppStorage = Nil
          THEN AppStorageComposer(pc) ELSE c.newAppStorage,
      newUserStorage |->
          IF c.newUserStorage = Nil
          THEN UserStorageComposer(pc) ELSE c.newUserStorage,
      newTokenStorage |->
          IF c.newTokenStorage = Nil
          THEN TokenStorageComposer(pc) ELSE c.newTokenStorage,
      newVerificationCodeStorage |->
          IF c.newVerificationCodeStorage = Nil
          THEN VerificationCodeStorageComposer(pc)
          ELSE c.newVerificationCodeStorage ]

RECURSIVE MergeAll_KeepFirst(_, _)
MergeAll_KeepFirst(c, pcs) ==
    IF pcs = <<>> THEN c
    ELSE MergeAll_KeepFirst(MergePartial_KeepFirst(c, Head(pcs)), Tail(pcs))

\* server.NewComposer in which the first partial composer providing a
\* category wins.
NewComposer_FirstWins(s, pcs) == MergeAll_KeepFirst(EmptyComposer(s), pcs)

\* server.NewComposer, called without options.
NewComposer(s, pcs) == MergeAll(EmptyComposer(s), pcs)

\* The error a failing constructor returns.
ErrorOf(step) == [error |-> step]

\* The error of line 72.
UnknownAlgorithm(name) ==
    [error |-> "Unknown token service algorithm", algorithm |-> name]

\* The storage a constructor builds: the captured instance for the user
\* storage closure, a fresh storage otherwise.
Built(ctor, category) ==
    IF "storage" \in DOMAIN ctor THEN ctor.storage
    ELSE [storage |-> category, by |-> ctor]

\* What Composer.Compose hands back on every error path.
ComposeFailure(err) ==
    [ kind |-> "returned",
      appStorage |-> Nil, userStorage |-> Nil, tokenStorage |-> Nil,
      verificationCodeStorage |-> Nil, tokenService |-> Nil, err |-> err ]

\* Calling a nil function value: a run-time panic, nothing is returned.
ComposePanic ==
    [ kind |-> "panic",
      appStorage |-> Nil, userStorage |-> Nil, tokenStorage |-> Nil,
      verificationCodeStorage |-> Nil, tokenService |-> Nil, err |-> Nil ]

\* The steps of Composer.Compose, in program order.
ComposeSteps ==
    << "AppStorage", "UserStorage", "TokenStorage", "VerificationCodeStorage",
       "StrToTokenSignAlg", "NewJWTokenService" >>

\* Composer.Compose that goes on after a failed constructor and hands back
\* what it built so far together with the first error.
Compose_KeepGoing(c, fails) ==
    LET ctor == [ AppStorage |-> c.newAppStorage,
                  UserStorage |-> c.newUserStorage,
                  TokenStorage |-> c.newTokenStorage,
                  VerificationCodeStorage |-> c.newVerificationCodeStorage ]
        cats == <<"AppStorage", "UserStorage", "TokenStorage",
                  "VerificationCodeStorage">>
        val(k) == IF k \in fails THEN Nil ELSE Built(ctor[k], k)
        bad == {i \in 1..4 : cats[i] \in fails}
        first == CHOOSE i \in bad : \A j \in bad : i <= j
    IN  IF \E k \in DOMAIN ctor : ctor[k] = Nil
        THEN [result |-> ComposePanic, invoked |-> <<>>]
        ELSE IF bad = {}
        THEN [ result |->
                 [ kind |-> "returned",
                   appStorage |-> val("AppStorage"),
                   userStorage |-> val("UserStorage"),
                   tokenStorage |-> val("TokenStorage"),
                   verificationCodeStorage |-> val("VerificationCodeStorage"),
                   tokenService |-> [service |-> "TokenService"],
                   err |-> Nil ],
               invoked |-> ComposeSteps ]
        ELSE [ result |->
                 [ kind |-> "returned",
                   appStorage |-> val("AppStorage"),
                   userStorage |-> val("UserStorage"),
                   tokenStorage |-> val("TokenStorage"),
                   verificationCodeStorage |-> val("VerificationCodeStorage"),
                   tokenService |-> Nil,
                   err |-> ErrorOf(cats[first]) ],
               invoked |-> cats ]

\* Composer.Compose.  `fails` names the steps whose callee returns an error
\* in this run (a constructor, or jwtService.NewJWTokenService).
Compose(c, fails) ==
    IF c.newAppStorage = Nil
    THEN [result |-> ComposePanic, invoked |-> <<>>]
    ELSE IF "AppStorage" \in fails
    THEN [ result |-> ComposeFailure(ErrorOf("AppStorage")),
           invoked |-> SubSeq(ComposeSteps, 1, 1) ]
    ELSE IF c.newUserStorage = Nil
    THEN [result |-> ComposePanic, invoked |-> SubSeq(ComposeSteps, 1, 1)]
    ELSE IF "UserStorage" \in fails
    THEN [ result |-> ComposeFailure(ErrorOf("UserStorage")),
           invoked |-> SubSeq(ComposeSteps, 1, 2) ]
    ELSE IF c.newTokenStorage = Nil
    THEN [result |-> ComposePanic, invoked |-> SubSeq(ComposeSteps, 1, 2)]
    ELSE IF "TokenStorage" \in fails
    THEN [ result |-> ComposeFailure(ErrorOf("TokenStorage")),
           invoked |-> SubSeq(ComposeSteps, 1, 3) ]
    ELSE IF c.newVerificationCodeStorage = Nil
    THEN [result |-> ComposePanic, invoked |-> SubSeq(ComposeSteps, 1, 3)]
    ELSE IF "VerificationCodeStorage" \in fails
    THEN [ result |-> ComposeFailure(ErrorOf("VerificationCodeStorage")),
           invoked |-> SubSeq(ComposeSteps, 1, 4) ]
    ELSE IF c.settings.Algorithm \notin DOMAIN StrToTokenSignAlg
    THEN [ result |-> ComposeFailure(UnknownAlgorithm(c.settings.Algorithm)),
           invoked |-> SubSeq(ComposeSteps, 1, 5) ]
    ELSE IF "NewJWTokenService" \in fails
    THEN [ result |-> ComposeFailure(ErrorOf("NewJWTokenService")),
           invoked |-> ComposeSteps ]
    ELSE [ result |->
             [ kind |-> "returned",
               appStorage |-> Built(c.newAppStorage, "AppStorage"),
               userStorage |-> Built(c.newUserStorage, "UserStorage"),
               tokenStorage |-> Built(c.newTokenStorage, "TokenStorage"),
               verificationCodeStorage |->
                   Built(c.newVerificationCodeStorage, "VerificationCodeStorage"),
               tokenService |->
                   [ service |-> "TokenService",
                     alg |-> StrToTokenSignAlg[c.settings.Algorithm] ],
               err |-> Nil ],
           invoked |-> ComposeSteps ]

(***************************************************************************)
(* boltdb.NewComposer / fake.NewComposer and DatabaseComposer.Compose       *)
(***************************************************************************)

\* boltdb.NewComposer.
boltdb_NewComposer(s, plug) ==
    [ family |-> DBTypeBoltDB, settings |-> s,
      newAppStorage |-> Func("boltdb.NewAppStorage"),
      userStorage |-> plug.UserStorage,
      newTokenStorage |-> Func("boltdb.NewTokenStorage"),
      newTokenBlacklist |-> Func("boltdb.NewTokenBlacklist"),
      newVerificationCodeStorage |-> Func("boltdb.NewVerificationCodeStorage") ]

\* fake.NewComposer.
fake_NewComposer(s, plug) ==
    [ family |-> DBTypeFake, settings |-> s,
      newAppStorage |-> Func("mem.NewAppStorage"),
      userStorage |-> plug.UserStorage,
      newTokenStorage |-> Func("mem.NewTokenStorage"),
      newTokenBlacklist |-> Func("mem.NewTokenBlacklist"),
      newVerificationCodeStorage |-> Func("mem.NewVerificationCodeStorage") ]

\* What DatabaseComposer.Compose hands back on every error path.
DatabaseComposeFailure(err) ==
    [ kind |-> "returned",
      appStorage |-> Nil, userStorage |-> Nil, tokenStorage |-> Nil,
      tokenBlacklist |-> Nil, verificationCodeStorage |-> Nil, err |-> err ]

\* The steps of boltdb's DatabaseComposer.Compose, in program order.
BoltdbComposeSteps ==
    << "InitDB", "AppStorage", "TokenStorage", "TokenBlacklist",
       "VerificationCodeStorage" >>

\* The steps of fake's DatabaseComposer.Compose, in program order.
FakeComposeSteps ==
    <<"AppStorage", "TokenStorage", "TokenBlacklist", "VerificationCodeStorage">>

RECURSIVE FirstFailing(_, _, _)
\* The position of the first step of `steps`, from position i on, whose callee
\* fails; 0 when none does.
FirstFailing(steps, fails, i) ==
    IF i > Len(steps) THEN 0
    ELSE IF steps[i] \in fails THEN i
    ELSE FirstFailing(steps, fails, i + 1)

\* The success result of a DatabaseComposer.Compose whose user storage comes
\* from `user`.
DatabaseComposeSuccess(d, user) ==
    [ kind |-> "returned",
      appStorage |-> Built(d.newAppStorage, "AppStorage"),
      userStorage |-> user,
      tokenStorage |-> Built(d.newTokenStorage, "TokenStorage"),
      tokenBlacklist |-> Built(d.newTokenBlacklist, "TokenBlacklist"),
      verificationCodeStorage |->
          Built(d.newVerificationCodeStorage, "VerificationCodeStorage"),
      err |-> Nil ]

\* boltdb's Compose building a BoltDB user storage of its own, as it did
\* before user storages came from plugins, instead of handing out
\* dc.userStorage.
boltdb_Compose_OwnUserStorage(d, fails) ==
    LET k == FirstFailing(BoltdbComposeSteps, fails, 1) IN
    IF k # 0
    THEN [ result |-> DatabaseComposeFailure(ErrorOf(BoltdbComposeSteps[k])),
           invoked |-> SubSeq(BoltdbComposeSteps, 1, k) ]
    ELSE [ result |->
             DatabaseComposeSuccess(d,
                 Built(Func("boltdb.NewUserStorage"), "UserStorage")),
           invoked |-> BoltdbComposeSteps ]

\* boltdb's DatabaseComposer.Compose: InitDB, then the four constructors, each
\* followed by `if err != nil { return nil, ..., err }`.
boltdb_Compose(d, fails) ==
    LET k == FirstFailing(BoltdbComposeSteps, fails, 1) IN
    IF k # 0
    THEN [ result |-> DatabaseComposeFailure(ErrorOf(BoltdbComposeSteps[k])),
           invoked |-> SubSeq(BoltdbComposeSteps, 1, k) ]
    ELSE [ result |-> DatabaseComposeSuccess(d, d.userStorage),
           invoked |-> BoltdbComposeSteps ]

\* fake's DatabaseComposer.Compose.
fake_Compose(d, fails) ==
    LET k == FirstFailing(FakeComposeSteps, fails, 1) IN
    IF k # 0
    THEN [ result |-> DatabaseComposeFailure(ErrorOf(FakeComposeSteps[k])),
           invoked |-> SubSeq(FakeComposeSteps, 1, k) ]
    ELSE [ result |-> DatabaseComposeSuccess(d, d.userStorage),
           invoked |-> FakeComposeSteps ]

(***************************************************************************)
(* Actions of the composer state machine                                    *)
(***************************************************************************)

\* Nothing was merged or composed yet: partial composers can still be built.
Building == composer = Nil /\ dc = Nil

\* A call of boltdb.NewPartialComposer(settings.Storage, plugins).  When
\* boltdb.InitDB fails the call returns (nil, err) and no composer exists.
BoltdbNewPartialComposer ==
    /\ Building
    /\ Len(partials) < MaxPartials
    /\ \E initDBOk \in BOOLEAN :
         partials' =
             IF initDBOk
             THEN Append(partials,
                      boltdb_NewPartialComposer(Len(partials) + 1, settings, plugins))
             ELSE partials
    /\ UNCHANGED <<settings, plugins, composer, dc, failing, result, invoked>>
    /\ UNCHANGED <<storageVars, hostVars>>

\* A call of fake.NewPartialComposer(settings.Storage).
FakeNewPartialComposer ==
    /\ Building
    /\ Len(partials) < MaxPartials
    /\ partials' =
           Append(partials, fake_NewPartialComposer(Len(partials) + 1, settings))
    /\ UNCHANGED <<settings, plugins, composer, dc, failing, result, invoked>>
    /\ UNCHANGED <<storageVars, hostVars>>

\* server.NewComposer(settings, partials).
ServerNewComposer ==
    /\ Building
    /\ composer' = NewComposer(settings, partials)
    /\ UNCHANGED <<settings, plugins, partials, dc, failing, result, invoked>>
    /\ UNCHANGED <<storageVars, hostVars>>

\* The callees of Composer.Compose that can return an error.
ServerFallible ==
    { "AppStorage", "UserStorage", "TokenStorage", "VerificationCodeStorage",
      "NewJWTokenService" }

\* Composer.Compose, run once at start-up.
ServerCompose ==
    /\ composer # Nil
    /\ result = Nil
    /\ \E fails \in SUBSET ServerFallible :
         /\ failing' = fails
         /\ result' = Compose(composer, fails).result
         /\ invoked' = Compose(composer, fails).invoked
    /\ UNCHANGED <<settings, plugins, partials, composer, dc>>
    /\ UNCHANGED <<storageVars, hostVars>>

\* boltdb.NewComposer(settings, plugins).
BoltdbNewComposer ==
    /\ Building
    /\ partials = <<>>
    /\ dc' = boltdb_NewComposer(settings, plugins)
    /\ UNCHANGED <<settings, plugins, partials, composer, failing, result, invoked>>
    /\ UNCHANGED <<storageVars, hostVars>>

\* fake.NewComposer(settings, plugins).
FakeNewComposer ==
    /\ Building
    /\ partials = <<>>
    /\ dc' = fake_NewComposer(settings, plugins)
    /\ UNCHANGED <<settings, plugins, partials, composer, failing, result, invoked>>
    /\ UNCHANGED <<storageVars, hostVars>>

\* boltdb's DatabaseComposer.Compose.
BoltdbCompose ==
    /\ dc # Nil
    /\ dc.family = DBTypeBoltDB
    /\ result = Nil
    /\ \E fails \in SUBSET {BoltdbComposeSteps[i] : i \in 1..Len(BoltdbComposeSteps)} :
         /\ failing' = fails
         /\ result' = boltdb_Compose(dc, fails).result
         /\ invoked' = boltdb_Compose(dc, fails).invoked
    /\ UNCHANGED <<settings, plugins, partials, composer, dc>>
    /\ UNCHANGED <<storageVars, hostVars>>

\* fake's DatabaseComposer.Compose.
FakeCompose ==
    /\ dc # Nil
    /\ dc.family = DBTypeFake
    /\ result = Nil
    /\ \E fails \in SUBSET {FakeComposeSteps[i] : i \in 1..Len(FakeComposeSteps)} :
         /\ failing' = fails
         /\ result' = fake_Compose(dc, fails).result
         /\ invoked' = fake_Compose(dc, fails).invoked
    /\ UNCHANGED <<settings, plugins, partials, composer, dc>>
    /\ UNCHANGED <<storageVars, hostVars>>

\* The collection before any operation.
\* The host before main runs.
HostIdle ==
    /\ hostPC = "main"
    /\ deferred = <<>>
    /\ subprocess = "not started"

StorageInit ==
    /\ users = {}
    /\ nextID = 0
    /\ ret = Nil
    /\ calls = [p \in Procs |-> Nil]

ComposerInit ==
    /\ settings \in AllSettings
    /\ plugins \in {[UserStorage |-> PluginUserStorage], [UserStorage |-> Nil]}
    /\ partials = <<>>
    /\ composer = Nil
    /\ dc = Nil
    /\ failing = {}
    /\ result = Nil
    /\ invoked = <<>>
    /\ StorageInit
    /\ HostIdle

ComposerNext ==
    \/ BoltdbNewPartialComposer
    \/ FakeNewPartialComposer
    \/ ServerNewComposer
    \/ ServerCompose
    \/ BoltdbNewComposer
    \/ FakeNewComposer
    \/ BoltdbCompose
    \/ FakeCompose

ComposerSpec == ComposerInit /\ [][ComposerNext]_vars

(***************************************************************************)
(* Properties of the composers                                              *)
(***************************************************************************)

\* The constructor of the last composer of pcs whose accessor Acc gives one,
\* Nil when none does.
LastNonNil(Acc(_), pcs) ==
    LET providing == {i \in 1..Len(pcs) : Acc(pcs[i]) # Nil} IN
    IF providing = {} THEN Nil
    ELSE Acc(pcs[CHOOSE i \in providing : \A j \in providing : j <= i])

\* C1: the Composer built by server.NewComposer holds, for each category, the
\* constructor of the last partial composer of the list whose accessor for
\* that category is non-nil (Nil when there is none); a nil accessor never
\* overrides an earlier constructor.
C1_LastNonNilWins ==
    composer # Nil =>
        /\ composer.newAppStorage = LastNonNil(AppStorageComposer, partials)
        /\ composer.newUserStorage = LastNonNil(UserStorageComposer, partials)
        /\ composer.newTokenStorage = LastNonNil(TokenStorageComposer, partials)
        /\ composer.newVerificationCodeStorage =
               LastNonNil(VerificationCodeStorageComposer, partials)

\* C1 witness: two composers both provide a token storage constructor and the
\* merged Composer holds the second one's, not the first one's.
C1_Witness ==
    /\ composer # Nil
    /\ Len(partials) >= 2
    /\ TokenStorageComposer(partials[1]) # Nil
    /\ TokenStorageComposer(partials[2]) # Nil
    /\ TokenStorageComposer(partials[1]) # TokenStorageComposer(partials[2])
    /\ composer.newTokenStorage =
           TokenStorageComposer(partials[Len(partials)])

\* C2: with a plugin-supplied UserStorage, every Compose that succeeds returns
\* exactly the plugin's instance as its user storage, and no Compose returns
\* any other user storage (a failed Compose returns nil), whatever the
\* configured backend types and whatever the partial composers provide.
C2_PluginUserStorageWins ==
    (plugins.UserStorage # Nil /\ result # Nil /\ result.kind = "returned") =>
        /\ result.err = Nil => result.userStorage = plugins.UserStorage
        /\ result.userStorage \in {Nil, plugins.UserStorage}

\* C2 witness: boltdb's DatabaseComposer composed successfully under settings
\* that select another backend for every category, and returned the plugin's
\* instance.
C2_Witness ==
    /\ plugins.UserStorage # Nil
    /\ dc # Nil
    /\ dc.family = DBTypeBoltDB
    /\ \A k \in SettingsCategories : settings.Storage[k] # DBTypeBoltDB
    /\ result # Nil
    /\ result.err = Nil
    /\ result.userStorage = PluginUserStorage

\* Is `done` the first n steps of `steps`, for some n?
IsPrefix(done, steps) ==
    /\ Len(done) <= Len(steps)
    /\ done = SubSeq(steps, 1, Len(done))

\* The program order of the Compose that ran.
StepsOfCompose ==
    IF composer # Nil THEN ComposeSteps
    ELSE IF dc.family = DBTypeBoltDB THEN BoltdbComposeSteps
    ELSE FakeComposeSteps

\* C3: Composer.Compose invokes the constructors in the order app, user,
\* token, verification code; when an invoked constructor returns an error it
\* is the last step executed (no later constructor is invoked) and Compose
\* returns that error with every storage and the token service nil.  The
\* DatabaseComposer.Compose of a family does the same in its own order.
C3_FailFast ==
    result # Nil =>
        /\ IsPrefix(invoked, StepsOfCompose)
        /\ \A i \in 1..Len(invoked) :
             invoked[i] \in failing =>
                 /\ i = Len(invoked)
                 /\ result =
                        IF composer # Nil
                        THEN ComposeFailure(ErrorOf(invoked[i]))
                        ELSE DatabaseComposeFailure(ErrorOf(invoked[i]))
\* C3 witness: the token storage constructor failed; the verification code
\* storage constructor, which would have failed too, was never invoked.
C3_Witness ==
    /\ composer # Nil
    /\ result # Nil
    /\ {"TokenStorage", "VerificationCodeStorage"} \subseteq failing
    /\ invoked = <<"AppStorage", "UserStorage", "TokenStorage">>
    /\ result.err = ErrorOf("TokenStorage")
    /\ result.appStorage = Nil

\* Does the merged Composer lack a constructor for some category?
SomeConstructorMissing(c) ==
    \/ c.newAppStorage = Nil
    \/ c.newUserStorage = Nil
    \/ c.newTokenStorage = Nil
    \/ c.newVerificationCodeStorage = Nil

\* Compose returned an error and nothing else.
ReturnedOnlyAnError(r) ==
    /\ r.kind = "returned"
    /\ r.err # Nil
    /\ r.appStorage = Nil
    /\ r.userStorage = Nil
    /\ r.tokenStorage = Nil
    /\ r.verificationCodeStorage = Nil
    /\ r.tokenService = Nil

\* C4: when some category has no constructor after the merge, Compose returns
\* an error value to its caller and nothing else; it does not crash.
C4_MissingConstructorIsError ==
    (composer # Nil /\ result # Nil /\ SomeConstructorMissing(composer)) =>
        ReturnedOnlyAnError(result)

\* C5: when the configured algorithm name is no key of StrToTokenSignAlg,
\* Compose returns an error, no storage and no token service; the name is
\* looked up at most once, inside Compose, and the token service is not built.
C5_UnknownAlgorithmIsError ==
    (composer # Nil /\ result # Nil
         /\ settings.Algorithm \notin DOMAIN StrToTokenSignAlg) =>
        /\ ReturnedOnlyAnError(result)
        /\ Cardinality({i \in 1..Len(invoked) : invoked[i] = "StrToTokenSignAlg"}) <= 1
        /\ \A i \in 1..Len(invoked) : invoked[i] # "NewJWTokenService"

\* The accessor of a partial composer for a configured category.
Accessor(pc, category) ==
    CASE category = "AppStorage" -> AppStorageComposer(pc)
      [] category = "TokenStorage" -> TokenStorageComposer(pc)
      [] category = "TokenBlacklist" -> TokenBlacklistComposer(pc)
      [] category = "VerificationCodeStorage" -> VerificationCodeStorageComposer(pc)

\* C6: the accessor of a partial composer for a category returns a constructor
\* exactly when the configured type of that category is the composer's own
\* family, and nil otherwise.
C6_PartialSelection ==
    \A i \in 1..Len(partials) : \A k \in SettingsCategories :
        (Accessor(partials[i], k) # Nil) <=>
            (settings.Storage[k] = partials[i].family)

\* C6 witness: a BoltDB composer that provides the token blacklist but not the
\* token storage (configured as in-memory), next to an in-memory composer that
\* provides the token storage but not the token blacklist.
C6_Witness ==
    \E i, j \in 1..Len(partials) :
        /\ partials[i].family = DBTypeBoltDB
        /\ partials[j].family = DBTypeFake
        /\ TokenBlacklistComposer(partials[i]) # Nil
        /\ TokenStorageComposer(partials[i]) = Nil
        /\ TokenStorageComposer(partials[j]) # Nil
        /\ TokenBlacklistComposer(partials[j]) = Nil
        /\ AppStorageComposer(partials[i]) = Nil
        /\ AppStorageComposer(partials[j]) = Nil

(***************************************************************************)
(* Part 2.  mongo.UserStorage: strings, patterns, hashes                    *)
(*                                                                          *)
(* A Go string is a sequence of one-character strings, so that ToLower,     *)
(* ReplaceAll and the regular expressions act on its characters.           *)
(***************************************************************************)

Empty == <<>>

\* The user names, e-mail addresses, phone numbers and federated IDs callers
\* use.  "bo*" and "b.b" carry characters that mean something in a pattern.
Bob == <<"b", "o", "b">>
BobUpper == <<"B", "o", "b">>
BoStar == <<"b", "o", "*">>
BDotB == <<"b", ".", "b">>
MailUpper == <<"A", "@", "x">>
MailLower == <<"a", "@", "x">>
PhoneOne == <<"+", "1">>
ProviderF == <<"f">>
FederatedOne == <<"1">>
PasswordP == <<"p">>
PasswordQ == <<"q">>

\* The lower-case form of one character.
LowerChar(c) ==
    CASE c = "A" -> "a"
      [] c = "B" -> "b"
      [] c = "F" -> "f"
      [] OTHER -> c

\* strings.ToLower.
ToLower(str) == [i \in 1..Len(str) |-> LowerChar(str[i])]

RECURSIVE ReplaceAllPlus(_)
\* strings.ReplaceAll(name, "+", "\\+").
ReplaceAllPlus(str) ==
    IF str = <<>> THEN <<>>
    ELSE IF Head(str) = "+" THEN <<"\\", "+">> \o ReplaceAllPlus(Tail(str))
    ELSE <<Head(str)>> \o ReplaceAllPlus(Tail(str))

\* string(provider) + ":" + id.
FederatedSID(provider, id) == provider \o <<":">> \o id

(***************************************************************************)
(* primitive.Regex with Options "i", as the database evaluates it: ^ and $  *)
(* anchor, . matches any character, * and + repeat the item before them,    *)
(* | separates alternatives, \c is the character c, anything else is        *)
(* itself.  A repetition mark with nothing to repeat makes the pattern      *)
(* invalid and the query fail.                                              *)
(***************************************************************************)

RECURSIVE SplitAlternatives(_, _)
\* The alternatives of a pattern: its pieces between the | marks.
SplitAlternatives(pattern, current) ==
    IF pattern = <<>> THEN <<current>>
    ELSE IF Head(pattern) = "\\" /\ Len(pattern) >= 2
    THEN SplitAlternatives(SubSeq(pattern, 3, Len(pattern)),
                           current \o SubSeq(pattern, 1, 2))
    ELSE IF Head(pattern) = "|"
    THEN <<current>> \o SplitAlternatives(Tail(pattern), <<>>)
    ELSE SplitAlternatives(Tail(pattern), Append(current, Head(pattern)))

RECURSIVE ParseItems(_)
\* The items of one alternative, each an atom with its repetition.
ParseItems(alt) ==
    IF alt = <<>> THEN <<>>
    ELSE
      LET c == Head(alt)
          escaped == c = "\\" /\ Len(alt) >= 2
          atom == IF escaped THEN [t |-> "lit", c |-> alt[2]]
                  ELSE IF c = "." THEN [t |-> "any", c |-> c]
                  ELSE IF c = "^" THEN [t |-> "bol", c |-> c]
                  ELSE IF c = "$" THEN [t |-> "eol", c |-> c]
                  ELSE IF c \in {"*", "+", "\\"} THEN [t |-> "invalid", c |-> c]
                  ELSE [t |-> "lit", c |-> c]
          rest == IF escaped THEN SubSeq(alt, 3, Len(alt)) ELSE Tail(alt)
          repeated == rest # <<>> /\ Head(rest) \in {"*", "+"}
          q == IF ~repeated THEN "one"
               ELSE IF Head(rest) = "*" THEN "star" ELSE "plus"
          item == IF repeated /\ atom.t \in {"bol", "eol"}
                  THEN [t |-> "invalid", c |-> c, q |-> q]
                  ELSE [t |-> atom.t, c |-> atom.c, q |-> q]
      IN  <<item>> \o ParseItems(IF repeated THEN Tail(rest) ELSE rest)

\* Does the pattern compile?
ValidPattern(pattern) ==
    LET alts == SplitAlternatives(pattern, <<>>) IN
    \A a \in 1..Len(alts) :
        \A i \in 1..Len(ParseItems(alts[a])) : ParseItems(alts[a])[i].t # "invalid"

\* Does the atom of an item match character ch, ignoring case?
AtomMatches(item, ch) ==
    \/ item.t = "any"
    \/ item.t = "lit" /\ LowerChar(item.c) = LowerChar(ch)

RECURSIVE MatchFrom(_, _, _)
\* Do the items match str from position i on (ending anywhere)?
MatchFrom(items, str, i) ==
    IF items = <<>> THEN TRUE
    ELSE
      LET it == Head(items) IN
      IF it.t = "bol" THEN i = 1 /\ MatchFrom(Tail(items), str, i)
      ELSE IF it.t = "eol" THEN i = Len(str) + 1 /\ MatchFrom(Tail(items), str, i)
      ELSE IF it.q = "one"
      THEN /\ i <= Len(str)
           /\ AtomMatches(it, str[i])
           /\ MatchFrom(Tail(items), str, i + 1)
      ELSE IF it.q = "star"
      THEN \/ MatchFrom(Tail(items), str, i)
           \/ /\ i <= Len(str)
              /\ AtomMatches(it, str[i])
              /\ MatchFrom(items, str, i + 1)
      ELSE /\ i <= Len(str)
           /\ AtomMatches(it, str[i])
           /\ MatchFrom(<<[it EXCEPT !.q = "star"]>> \o Tail(items), str, i + 1)

\* Does a valid pattern match somewhere in str?
RegexMatches(pattern, str) ==
    LET alts == SplitAlternatives(pattern, <<>>) IN
    \E a \in 1..Len(alts) : \E i \in 1..(Len(str) + 1) :
        MatchFrom(ParseItems(alts[a]), str, i)

\* bcrypt.GenerateFromPassword as PasswordHash uses it: a non-empty hash that
\* only its own password verifies against.
PasswordHash(pwd) == <<"$2a$">> \o pwd

\* bcrypt.CompareHashAndPassword(hash, password) = nil.  The empty string is
\* no bcrypt hash.
CompareHashAndPassword(hash, password) ==
    hash # Empty /\ hash = PasswordHash(password)

(***************************************************************************)
(* The Users collection and its indices                                     *)
(***************************************************************************)

\* The errors the operations return.
ErrUserNotFound == [error |-> "model.ErrUserNotFound"]
ErrorUserExists == [error |-> "model.ErrorUserExists"]
ErrorWrongDataFormat == [error |-> "model.ErrorWrongDataFormat"]
ErrNoDocuments == [error |-> "mongo.ErrNoDocuments"]
ErrDuplicateKey == [error |-> "mongo: E11000 duplicate key"]
ErrInvalidHex == [error |-> "primitive.ErrInvalidHex"]

\* model.TFAInfo of a user without two-factor authentication.
NoTFA == [IsEnabled |-> FALSE, Secret |-> Empty]

\* A userData value.
UserData(id, username, email, phone, pswd, federatedIDs) ==
    [ ID |-> id, Username |-> username, Email |-> email, Phone |-> phone,
      Pswd |-> pswd, FederatedIDs |-> federatedIDs, NumOfLogins |-> 0,
      LatestLoginTime |-> 0, TFAInfo |-> NoTFA ]

\* The key of the username index: collation {Locale: "en", Strength: 1}
\* compares base characters only, so letter case is ignored.
UsernameKey(username) == ToLower(username)

\* NewUserStorage with the username index built without the collation: an
\* exact, case-sensitive unique index.
BreaksUniqueIndex_CaseSensitive(docs, d) ==
    \E e \in docs :
        /\ e.ID # d.ID
        /\ \/ d.Username # Empty /\ e.Username = d.Username
           \/ d.Email # Empty /\ e.Email = d.Email
           \/ d.Phone # Empty /\ e.Phone = d.Phone

\* Would storing document d next to the documents docs break one of the unique
\* sparse indices on username, email and phone that NewUserStorage ensures?
\* A field that is empty is left out of the document and of its index.
BreaksUniqueIndex(docs, d) ==
    \E e \in docs :
        /\ e.ID # d.ID
        /\ \/ d.Username # Empty /\ e.Username # Empty
                /\ UsernameKey(e.Username) = UsernameKey(d.Username)
           \/ d.Email # Empty /\ e.Email = d.Email
           \/ d.Phone # Empty /\ e.Phone = d.Phone

\* isErrDuplication: is the error of a write a duplicate-key error?
isErrDuplication(err) == err = ErrDuplicateKey

\* coll.InsertOne: the error it returns, Nil when the document is stored.
InsertOneError(docs, d) ==
    IF BreaksUniqueIndex(docs, d) THEN ErrDuplicateKey ELSE Nil

\* model.EmailRegexp.MatchString: the string has the shape of an address.
EmailRegexpMatches(str) ==
    \E i \in 2..(Len(str) - 1) : str[i] = "@"

\* model.PhoneRegexp.MatchString: a plus sign followed by digits.
PhoneRegexpMatches(str) ==
    /\ Len(str) >= 2
    /\ str[1] = "+"
    /\ \A i \in 2..Len(str) : str[i] \in {"0", "1", "2", "3", "4", "5", "6", "7", "8", "9"}

\* The outcome of an operation: the collection after it, the ObjectIDs used,
\* and the (user, error) pair the caller gets.
Outcome(docs, n, user, err) ==
    [users |-> docs, nextID |-> n, user |-> user, err |-> err]

(***************************************************************************)
(* Operations of UserStorage                                                *)
(***************************************************************************)

\* The documents FindOne can decode for the username pattern: any stored
\* document whose username matches.
FindByUsernamePattern(docs, pattern) ==
    IF ~ValidPattern(pattern) THEN {}
    ELSE {d \in docs : d.Username # Empty /\ RegexMatches(pattern, d.Username)}

\* The pattern UserByNamePassword builds (line 249).
StrictPattern(name) == <<"^">> \o ReplaceAllPlus(name) \o <<"$">>

\* UserByNamePassword when FindOne decodes document d.
LoginWith(d, password) ==
    IF ~CompareHashAndPassword(d.Pswd, password)
    THEN [user |-> Nil, err |-> ErrUserNotFound]
    ELSE [user |-> [d EXCEPT !.Pswd = Empty], err |-> Nil]

\* UserByNamePassword reporting a failed hash comparison by an error of its
\* own.
UserByNamePassword_WrongPasswordError(docs, name, password) ==
    LET found == FindByUsernamePattern(docs, StrictPattern(name)) IN
    IF found = {} THEN {[user |-> Nil, err |-> ErrUserNotFound]}
    ELSE { IF ~CompareHashAndPassword(d.Pswd, password)
           THEN [user |-> Nil, err |-> [error |-> "wrong password"]]
           ELSE [user |-> [d EXCEPT !.Pswd = Empty], err |-> Nil] : d \in found }

\* UserByNamePassword: every (user, error) pair the call can return.  When
\* several documents match the pattern FindOne decodes one of them.
UserByNamePassword(docs, name, password) ==
    LET found == FindByUsernamePattern(docs, StrictPattern(name)) IN
    IF found = {} THEN {[user |-> Nil, err |-> ErrUserNotFound]}
    ELSE {LoginWith(d, password) : d \in found}

\* AddNewUser storing the email as the caller wrote it.
AddNewUser_KeepsEmailCase(docs, n, usr, password) ==
    LET u == [ ID |-> n + 1,
               Username |-> usr.Username,
               Email |-> usr.Email,
               Phone |-> usr.Phone,
               Pswd |-> IF Len(password) > 0 THEN PasswordHash(password)
                        ELSE usr.Pswd,
               FederatedIDs |-> usr.FederatedIDs,
               NumOfLogins |-> 0,
               LatestLoginTime |-> usr.LatestLoginTime,
               TFAInfo |-> usr.TFAInfo ]
    IN  IF BreaksUniqueIndex(docs, u)
        THEN Outcome(docs, n, Nil, ErrorUserExists)
        ELSE Outcome(docs \cup {u}, n + 1, u, Nil)

\* AddNewUser for a *User value usr with password `password`; n ObjectIDs
\* are in use, primitive.NewObjectID() gives the next one.
AddNewUser(docs, n, usr, password) ==
    LET u == [ ID |-> n + 1,
               Username |-> usr.Username,
               Email |-> ToLower(usr.Email),
               Phone |-> usr.Phone,
               Pswd |-> IF Len(password) > 0 THEN PasswordHash(password)
                        ELSE usr.Pswd,
               FederatedIDs |-> usr.FederatedIDs,
               NumOfLogins |-> 0,
               LatestLoginTime |-> usr.LatestLoginTime,
               TFAInfo |-> usr.TFAInfo ]
        err == InsertOneError(docs, u)
    IN  IF err # Nil
        THEN IF isErrDuplication(err)
             THEN Outcome(docs, n, Nil, ErrorUserExists)
             ELSE Outcome(docs, n, Nil, err)
        ELSE Outcome(docs \cup {u}, n + 1, u, Nil)

\* AddUserByPhone.
AddUserByPhone(docs, n, phone) ==
    LET u == UserData(n + 1, phone, Empty, phone, Empty, <<>>)
        err == InsertOneError(docs, u)
    IN  IF err # Nil
        THEN IF isErrDuplication(err)
             THEN Outcome(docs, n, Nil, ErrorUserExists)
             ELSE Outcome(docs, n, Nil, err)
        ELSE Outcome(docs \cup {u}, n + 1, u, Nil)

\* AddUserByNameAndPassword.
AddUserByNameAndPassword(docs, n, username, password) ==
    LET u == UserData(0, username,
                      IF EmailRegexpMatches(username) THEN username ELSE Empty,
                      IF PhoneRegexpMatches(username) THEN username ELSE Empty,
                      Empty, <<>>)
    IN  AddNewUser(docs, n, u, password)

\* UserByFederatedID finds a user: some document lists sid among its
\* federated_ids.
FederatedIDOwners(docs, sid) ==
    {d \in docs : \E i \in 1..Len(d.FederatedIDs) : d.FederatedIDs[i] = sid}

\* AddUserWithFederatedID.
AddUserWithFederatedID(docs, n, provider, federatedID) ==
    LET sid == FederatedSID(provider, federatedID) IN
    IF FederatedIDOwners(docs, sid) # {}
    THEN Outcome(docs, n, Nil, ErrorUserExists)
    ELSE AddNewUser(docs, n, UserData(0, sid, Empty, Empty, Empty, <<sid>>), Empty)

\* A model.User value of another implementation than this backend's *User.
ForeignUser == [ForeignType |-> TRUE, Username |-> Bob, Email |-> MailUpper]

\* newUser.(*User) succeeds: the value is this backend's own *User.
IsOwnUser(usr) == "ForeignType" \notin DOMAIN usr

\* UpdateUser writing the document under the ID the supplied user carries.
UpdateUser_KeepsSuppliedID(docs, n, id, newUser) ==
    IF id = 0 THEN Outcome(docs, n, Nil, ErrInvalidHex)
    ELSE IF ~IsOwnUser(newUser) THEN Outcome(docs, n, Nil, ErrorWrongDataFormat)
    ELSE
      LET res == [newUser EXCEPT !.Email = ToLower(newUser.Email)]
          old == {d \in docs : d.ID = id}
      IN  IF old = {} THEN Outcome(docs, n, Nil, ErrNoDocuments)
          ELSE IF BreaksUniqueIndex(docs \ old, res)
          THEN Outcome(docs, n, Nil, ErrDuplicateKey)
          ELSE Outcome((docs \ old) \cup {res}, n, res, Nil)

\* UpdateUser(userID, newUser); id 0 stands for a userID that is no ObjectID
\* in hex.  FindOneAndUpdate sets the fields of newUser on the document with
\* that _id and returns the document after.
UpdateUser(docs, n, id, newUser) ==
    IF id = 0 THEN Outcome(docs, n, Nil, ErrInvalidHex)
    ELSE IF ~IsOwnUser(newUser) THEN Outcome(docs, n, Nil, ErrorWrongDataFormat)
    ELSE
      LET res == [ ID |-> id,
                   Username |-> newUser.Username,
                   Email |-> ToLower(newUser.Email),
                   Phone |-> newUser.Phone,
                   Pswd |-> newUser.Pswd,
                   FederatedIDs |-> newUser.FederatedIDs,
                   NumOfLogins |-> newUser.NumOfLogins,
                   LatestLoginTime |-> newUser.LatestLoginTime,
                   TFAInfo |-> newUser.TFAInfo ]
          old == {d \in docs : d.ID = id}
      IN  IF old = {} THEN Outcome(docs, n, Nil, ErrNoDocuments)
          ELSE IF BreaksUniqueIndex(docs, res)
          THEN Outcome(docs, n, Nil, ErrDuplicateKey)
          ELSE Outcome((docs \ old) \cup {res}, n, res, Nil)

\* ResetUsername(id, username).
ResetUsername(docs, n, id, username) ==
    IF id = 0 THEN Outcome(docs, n, Nil, ErrInvalidHex)
    ELSE
      LET old == {d \in docs : d.ID = id}
          new == {[d EXCEPT !.Username = username] : d \in old}
      IN  IF old = {} THEN Outcome(docs, n, Nil, ErrNoDocuments)
          ELSE IF \E d \in new : BreaksUniqueIndex(docs, d)
          THEN Outcome(docs, n, Nil, ErrDuplicateKey)
          ELSE Outcome((docs \ old) \cup new, n, Nil, Nil)

\* DeleteUser(id): DeleteOne reports no error when nothing matches.
DeleteUser(docs, n, id) ==
    IF id = 0 THEN Outcome(docs, n, Nil, ErrInvalidHex)
    ELSE Outcome({d \in docs : d.ID # id}, n, Nil, Nil)

RECURSIVE ImportJSON_SkipsFailures(_, _, _)
\* ImportJSON going on with the later records after a record has failed.
ImportJSON_SkipsFailures(docs, n, ud) ==
    IF ud = <<>> THEN Outcome(docs, n, Nil, Nil)
    ELSE
      LET u == Head(ud)
          pswd == u.Pswd
          added == AddNewUser(docs, n, [u EXCEPT !.Pswd = Empty], pswd)
          rest == ImportJSON_SkipsFailures(added.users, added.nextID, Tail(ud))
      IN  IF added.err # Nil
          THEN Outcome(rest.users, rest.nextID, Nil, added.err)
          ELSE rest

RECURSIVE ImportJSON(_, _, _)
\* ImportJSON for the decoded array ud: record by record, the inbound pswd
\* is taken as the password and cleared, and the first failing AddNewUser
\* ends the import.
ImportJSON(docs, n, ud) ==
    IF ud = <<>> THEN Outcome(docs, n, Nil, Nil)
    ELSE
      LET u == Head(ud)
          pswd == u.Pswd
          added == AddNewUser(docs, n, [u EXCEPT !.Pswd = Empty], pswd)
      IN  IF added.err # Nil THEN Outcome(added.users, added.nextID, Nil, added.err)
          ELSE ImportJSON(added.users, added.nextID, Tail(ud))

(***************************************************************************)
(* Actions of the user storage state machine: a caller calls one operation  *)
(* with arguments drawn from the sets below, and takes its result.          *)
(***************************************************************************)

\* User names passed to AddUserByNameAndPassword.
RegisterNames == {Bob, BobUpper, BoStar, MailUpper}

\* Passwords passed when registering.
RegisterPasswords == {PasswordP, Empty}

\* User names and passwords passed to UserByNamePassword.
LoginNames == {Bob, BoStar, BDotB, MailUpper}
LoginPasswords == {PasswordP, PasswordQ}

\* The *User values callers hand to AddNewUser, UpdateUser and ImportJSON,
\* each with a user name and one more identifier.  One of them carries
\* an ID of its own.
UserValues ==
    { UserData(0, Bob, MailUpper, Empty, Empty, <<>>),
      UserData(2, BobUpper, Empty, PhoneOne, Empty, <<>>),
      UserData(0, Bob, Empty, Empty, Empty,
               <<FederatedSID(ProviderF, FederatedOne)>>) }

\* User names passed to ResetUsername.
ResetNames == {BobUpper, BoStar, FederatedSID(ProviderF, FederatedOne)}

\* The records of an imported array: user values with an inbound pswd.
ImportRecords == {[u EXCEPT !.Pswd = PasswordP] : u \in UserValues}

\* The arrays ImportJSON is given.
ImportArrays ==
    UNION {[1..k -> ImportRecords] : k \in 0..MaxImport}

\* The userID arguments: 0 is no ObjectID in hex, the others are well formed.
UserIDs == 0..MaxUsers

\* The call's record in ret.
Called(op, args, o) == [op |-> op, args |-> args, user |-> o.user, err |-> o.err]

AddNewUserCall ==
    /\ ret = Nil
    /\ \E usr \in UserValues, password \in RegisterPasswords :
         LET o == AddNewUser(users, nextID, usr, password) IN
         /\ o.nextID <= MaxUsers
         /\ users' = o.users
         /\ nextID' = o.nextID
         /\ ret' = Called("AddNewUser",
                          [Username |-> usr.Username, user |-> usr,
                           password |-> password], o)
    /\ UNCHANGED <<composerVars, calls, hostVars>>

AddUserByNameAndPasswordCall ==
    /\ ret = Nil
    /\ \E username \in RegisterNames, password \in RegisterPasswords :
         LET o == AddUserByNameAndPassword(users, nextID, username, password) IN
         /\ o.nextID <= MaxUsers
         /\ users' = o.users
         /\ nextID' = o.nextID
         /\ ret' = Called("AddUserByNameAndPassword",
                          [Username |-> username, password |-> password], o)
    /\ UNCHANGED <<composerVars, calls, hostVars>>

AddUserByPhoneCall ==
    /\ ret = Nil
    /\ \E phone \in {PhoneOne} :
         LET o == AddUserByPhone(users, nextID, phone) IN
         /\ o.nextID <= MaxUsers
         /\ users' = o.users
         /\ nextID' = o.nextID
         /\ ret' = Called("AddUserByPhone", [Username |-> phone], o)
    /\ UNCHANGED <<composerVars, calls, hostVars>>

AddUserWithFederatedIDCall ==
    /\ ret = Nil
    /\ \E provider \in {ProviderF}, federatedID \in {FederatedOne} :
         LET o == AddUserWithFederatedID(users, nextID, provider, federatedID) IN
         /\ o.nextID <= MaxUsers
         /\ users' = o.users
         /\ nextID' = o.nextID
         /\ ret' = Called("AddUserWithFederatedID",
                          [Username |-> FederatedSID(provider, federatedID)], o)
    /\ UNCHANGED <<composerVars, calls, hostVars>>

UpdateUserCall ==
    /\ ret = Nil
    /\ \E id \in UserIDs, newUser \in UserValues \cup {ForeignUser} :
         LET o == UpdateUser(users, nextID, id, newUser) IN
         /\ users' = o.users
         /\ nextID' = o.nextID
         /\ ret' = Called("UpdateUser", [id |-> id, user |-> newUser], o)
    /\ UNCHANGED <<composerVars, calls, hostVars>>

ResetUsernameCall ==
    /\ ret = Nil
    /\ \E id \in UserIDs, username \in ResetNames :
         LET o == ResetUsername(users, nextID, id, username) IN
         /\ users' = o.users
         /\ nextID' = o.nextID
         /\ ret' = Called("ResetUsername", [id |-> id, Username |-> username], o)
    /\ UNCHANGED <<composerVars, calls, hostVars>>

DeleteUserCall ==
    /\ ret = Nil
    /\ \E id \in UserIDs :
         LET o == DeleteUser(users, nextID, id) IN
         /\ users' = o.users
         /\ nextID' = o.nextID
         /\ ret' = Called("DeleteUser", [id |-> id], o)
    /\ UNCHANGED <<composerVars, calls, hostVars>>

ImportJSONCall ==
    /\ ret = Nil
    /\ \E ud \in ImportArrays :
         LET o == ImportJSON(users, nextID, ud) IN
         /\ o.nextID <= MaxUsers
         /\ users' = o.users
         /\ nextID' = o.nextID
         /\ ret' = Called("ImportJSON", [data |-> ud], o)
    /\ UNCHANGED <<composerVars, calls, hostVars>>

UserByNamePasswordCall ==
    /\ ret = Nil
    /\ \E name \in LoginNames, password \in LoginPasswords :
         \E r \in UserByNamePassword(users, name, password) :
             ret' = [ op |-> "UserByNamePassword",
                      args |-> [Username |-> name, password |-> password],
                      user |-> r.user, err |-> r.err ]
    /\ UNCHANGED <<users, nextID>>
    /\ UNCHANGED <<composerVars, calls, hostVars>>

\* The caller has taken the result; the next call can start.
Return ==
    /\ ret # Nil
    /\ ret' = Nil
    /\ UNCHANGED <<users, nextID>>
    /\ UNCHANGED <<composerVars, calls, hostVars>>

\* The composers play no part in the storage state machine.
ComposerIdle ==
    /\ settings = [ Storage |-> [k \in SettingsCategories |-> DBTypeMongoDB],
                    Algorithm |-> "rs256" ]
    /\ plugins = [UserStorage |-> Nil]
    /\ partials = <<>>
    /\ composer = Nil
    /\ dc = Nil
    /\ failing = {}
    /\ result = Nil
    /\ invoked = <<>>

StorageSpecInit == ComposerIdle /\ StorageInit /\ HostIdle

StorageNext ==
    \/ AddNewUserCall
    \/ AddUserByNameAndPasswordCall
    \/ AddUserByPhoneCall
    \/ AddUserWithFederatedIDCall
    \/ UpdateUserCall
    \/ ResetUsernameCall
    \/ DeleteUserCall
    \/ ImportJSONCall
    \/ UserByNamePasswordCall
    \/ Return

StorageSpec == StorageSpecInit /\ [][StorageNext]_vars

(***************************************************************************)
(* Properties of the user storage                                           *)
(***************************************************************************)

\* C7: UserByNamePassword returns one and the same result, the error
\* model.ErrUserNotFound and no user, when no user has the name and when a
\* user has it but the password does not match the hash: for a stored user d
\* and a password, a failed login against the collection and a failed login
\* against the collection without d give equal results (compared between
\* calls, when no result is pending).
C7_LoginFailuresIndistinguishable ==
    /\ (ret # Nil /\ ret.op = "UserByNamePassword" /\ ret.err # Nil) =>
           (ret.err = ErrUserNotFound /\ ret.user = Nil)
    /\ ret = Nil =>
         \A d \in users : \A password \in LoginPasswords :
         \A a \in UserByNamePassword(users, d.Username, password) :
           \A b \in UserByNamePassword(users \ {d}, d.Username, password) :
             (a.err # Nil /\ b.err # Nil) =>
                 (a = b /\ a.err = ErrUserNotFound /\ a.user = Nil)

\* C7 witness: a login with the name of a stored user and a password that is
\* not the user's failed with model.ErrUserNotFound.
C7_Witness ==
    /\ ret # Nil
    /\ ret.op = "UserByNamePassword"
    /\ ret.err = ErrUserNotFound
    /\ ret.args.password = PasswordQ
    /\ \E d \in users :
         /\ d.Username = ret.args.Username
         /\ d.Pswd = PasswordHash(PasswordP)

\* C8: after AddUserByNameAndPassword(username, password) succeeded, every
\* UserByNamePassword(username, password) succeeds and returns the user with
\* that ID and an empty PasswordHash, and the stored record keeps a non-empty
\* hash.
C8_RegisterThenLogin ==
    (ret # Nil /\ ret.op = "AddUserByNameAndPassword" /\ ret.err = Nil) =>
        /\ \A r \in UserByNamePassword(users, ret.args.Username, ret.args.password) :
             /\ r.err = Nil
             /\ r.user.ID = ret.user.ID
             /\ r.user.Pswd = Empty
        /\ \E d \in users : d.ID = ret.user.ID /\ d.Pswd # Empty

\* The operations that register a user.
RegisterOps ==
    {"AddUserByNameAndPassword", "AddNewUser", "AddUserByPhone",
     "AddUserWithFederatedID"}

FederatedIDSet(d) == {d.FederatedIDs[i] : i \in 1..Len(d.FederatedIDs)}

\* C10: no two stored users share a Username (ignoring case), a non-empty
\* Email, a non-empty Phone or a federated ID.
C10_IdentifiersUnique ==
    \A d, e \in users :
        d.ID # e.ID =>
            /\ ToLower(d.Username) # ToLower(e.Username)
            /\ d.Email # Empty => d.Email # e.Email
            /\ d.Phone # Empty => d.Phone # e.Phone
            /\ FederatedIDSet(d) \cap FederatedIDSet(e) = {}

(***************************************************************************)
(* Part 3.  Concurrent calls of AddUserWithFederatedID                      *)
(*                                                                          *)
(* Each goroutine runs the method's two database accesses as two steps: the *)
(* FindOne of UserByFederatedID, then the InsertOne of AddNewUser.          *)
(***************************************************************************)

\* A second external ID of the provider.
FederatedTwo == <<"2">>

\* The federatedID arguments of the concurrent calls.
FederatedIDs == {FederatedOne, FederatedTwo}

\* The userData AddUserWithFederatedID builds for sid (lines 342-349).
FederatedUser(sid) == UserData(0, sid, Empty, Empty, Empty, <<sid>>)

\* The insert of a federated user that carries no username.
InsertFederatedUser_Unnamed(docs, n, sid) ==
    AddNewUser(docs, n, UserData(0, Empty, Empty, Empty, Empty, <<sid>>), Empty)

\* AddUserWithFederatedID after its existence check: AddNewUser of the
\* federated user with the empty password (line 350).
InsertFederatedUser(docs, n, sid) ==
    AddNewUser(docs, n, FederatedUser(sid), Empty)

\* The collections the concurrent calls start from: empty; one user
\* registered by name; one user owning "f:1" under another name (AddNewUser);
\* the user AddUserWithFederatedID("f", "1") stored.
FederatedStores ==
    LET sid == FederatedSID(ProviderF, FederatedOne) IN
    { {},
      {UserData(1, Bob, Empty, Empty, PasswordHash(PasswordP), <<>>)},
      {UserData(1, Bob, Empty, Empty, PasswordHash(PasswordP), <<sid>>)},
      {UserData(1, sid, Empty, Empty, Empty, <<sid>>)} }

\* The calls that passed their check and have their insert ahead.
InsertsAhead == {q \in Procs : calls[q] # Nil /\ calls[q].pc = "insert"}

\* Goroutine p calls AddUserWithFederatedID and runs UserByFederatedID: with
\* an owner found the call returns model.ErrorUserExists (lines 338-340).
FederatedCheck(p) ==
    /\ calls[p] = Nil
    /\ \E provider \in {ProviderF}, federatedID \in FederatedIDs :
         LET sid == FederatedSID(provider, federatedID)
             found == FederatedIDOwners(users, sid) # {}
             call == [ op |-> "AddUserWithFederatedID", sid |-> sid,
                       found |-> found, pc |-> "insert",
                       user |-> Nil, err |-> Nil ]
         IN  IF found
             THEN calls' = [calls EXCEPT ![p] =
                      [call EXCEPT !.pc = "done", !.err = ErrorUserExists]]
             ELSE /\ nextID + Cardinality(InsertsAhead) + 1 <= MaxUsers
                  /\ calls' = [calls EXCEPT ![p] = call]
    /\ UNCHANGED <<users, nextID, ret>>
    /\ UNCHANGED <<composerVars, hostVars>>

\* Goroutine p runs the AddNewUser of its call (line 350).
FederatedInsert(p) ==
    /\ calls[p] # Nil
    /\ calls[p].pc = "insert"
    /\ LET o == InsertFederatedUser(users, nextID, calls[p].sid) IN
         /\ users' = o.users
         /\ nextID' = o.nextID
         /\ calls' = [calls EXCEPT ![p] =
                [@ EXCEPT !.pc = "done", !.user = o.user, !.err = o.err]]
    /\ UNCHANGED ret
    /\ UNCHANGED <<composerVars, hostVars>>

\* The caller of goroutine p has taken the result.
FederatedReturn(p) ==
    /\ calls[p] # Nil
    /\ calls[p].pc = "done"
    /\ calls' = [calls EXCEPT ![p] = Nil]
    /\ UNCHANGED <<users, nextID, ret>>
    /\ UNCHANGED <<composerVars, hostVars>>

FederatedInit ==
    /\ ComposerIdle
    /\ users \in FederatedStores
    /\ nextID = Cardinality(users)
    /\ ret = Nil
    /\ calls = [p \in Procs |-> Nil]
    /\ HostIdle

FederatedNext ==
    \E p \in Procs :
        \/ FederatedCheck(p)
        \/ FederatedInsert(p)
        \/ FederatedReturn(p)

FederatedSpec == FederatedInit /\ [][FederatedNext]_vars

\* C11: a step of AddUserWithFederatedID taken while some stored user owns
\* the federated ID ends the call with model.ErrorUserExists and stores
\* nothing; of two concurrent calls with the same provider and id at most
\* one succeeds, and at most one stored user owns a federated ID.
C11_FederatedIDOwnedOnce ==
    /\ [](/\ \A p, q \in Procs :
               ( /\ p # q
                 /\ calls[p] # Nil /\ calls[q] # Nil
                 /\ calls[p].sid = calls[q].sid
                 /\ calls[p].pc = "done" /\ calls[q].pc = "done" )
               => (calls[p].err # Nil \/ calls[q].err # Nil)
          /\ \A federatedID \in FederatedIDs :
               Cardinality(FederatedIDOwners(users,
                   FederatedSID(ProviderF, federatedID))) <= 1)
    /\ [][\A p \in Procs :
            ( /\ calls'[p] # Nil
              /\ calls'[p] # calls[p]
              /\ FederatedIDOwners(users, calls'[p].sid) # {} )
            => ( /\ calls'[p].pc = "done"
                 /\ calls'[p].err = ErrorUserExists
                 /\ calls'[p].user = Nil
                 /\ users' = users )]_vars

\* C11 witness: two calls for "f:1" both found no owner; one stored the user
\* and the other failed with model.ErrorUserExists.
C11_Witness ==
    \E p, q \in Procs :
        /\ p # q
        /\ calls[p] # Nil /\ calls[q] # Nil
        /\ calls[p].sid = calls[q].sid
        /\ calls[p].pc = "done" /\ calls[q].pc = "done"
        /\ ~calls[p].found /\ ~calls[q].found
        /\ calls[p].err = Nil
        /\ calls[q].err = ErrorUserExists
        /\ Cardinality(FederatedIDOwners(users, calls[p].sid)) = 1

(***************************************************************************)
(* Part 4.  Lookups                                                         *)
(***************************************************************************)

\* UserExists(name): FindOne with the pattern "^" + name + "$" and option
\* "i" decodes a document without error (lines 201-206).
UserExists(docs, name) ==
    FindByUsernamePattern(docs, <<"^">> \o name \o <<"$">>) # {}

\* The results of a lookup whose FindOne can decode the documents found:
\* one of the documents, or the error `missing` when there is none.
Lookup(found, missing) ==
    IF found = {} THEN {[user |-> Nil, err |-> missing]}
    ELSE {[user |-> d, err |-> Nil] : d \in found}

\* The results with u.Pswd = "" set on the user found.
PswdCleared(results) ==
    { IF r.user = Nil THEN r
      ELSE [r EXCEPT !.user = [r.user EXCEPT !.Pswd = Empty]] : r \in results }

\* UserByID(id): id 0 stands for an id that is no ObjectID in hex.  The
\* error of Decode is returned as it is.
UserByID(docs, id) ==
    IF id = 0 THEN {[user |-> Nil, err |-> ErrInvalidHex]}
    ELSE Lookup({d \in docs : d.ID = id}, ErrNoDocuments)

\* UserByEmail(email).
UserByEmail(docs, email) ==
    IF email = Empty THEN {[user |-> Nil, err |-> ErrorWrongDataFormat]}
    ELSE Lookup({d \in docs : d.Email = ToLower(email)}, ErrNoDocuments)

\* UserByPhone(phone) for a non-empty phone.
UserByPhone(docs, phone) ==
    PswdCleared(Lookup({d \in docs : d.Phone = phone}, ErrNoDocuments))

\* UserByFederatedID(provider, id).
UserByFederatedID(docs, provider, id) ==
    PswdCleared(Lookup(FederatedIDOwners(docs, FederatedSID(provider, id)),
                       ErrUserNotFound))

\* The names UserExists is asked about.
ExistsNames == {Bob, BobUpper, BoStar, BDotB, PhoneOne}

\* The keys of the lookups.
LookupEmails == {MailUpper, MailLower, Empty}
LookupPhones == {PhoneOne}

\* The record in ret of a read-only call.
Answered(op, args, r) ==
    [op |-> op, args |-> args, user |-> r.user, err |-> r.err]

UserExistsCall ==
    /\ ret = Nil
    /\ \E name \in ExistsNames :
         ret' = [ op |-> "UserExists", args |-> [Username |-> name],
                  user |-> Nil, err |-> Nil,
                  exists |-> UserExists(users, name) ]
    /\ UNCHANGED <<users, nextID>>
    /\ UNCHANGED <<composerVars, calls, hostVars>>

UserByIDCall ==
    /\ ret = Nil
    /\ \E id \in UserIDs : \E r \in UserByID(users, id) :
         ret' = Answered("UserByID", [id |-> id], r)
    /\ UNCHANGED <<users, nextID>>
    /\ UNCHANGED <<composerVars, calls, hostVars>>

UserByEmailCall ==
    /\ ret = Nil
    /\ \E email \in LookupEmails : \E r \in UserByEmail(users, email) :
         ret' = Answered("UserByEmail", [email |-> email], r)
    /\ UNCHANGED <<users, nextID>>
    /\ UNCHANGED <<composerVars, calls, hostVars>>

UserByPhoneCall ==
    /\ ret = Nil
    /\ \E phone \in LookupPhones : \E r \in UserByPhone(users, phone) :
         ret' = Answered("UserByPhone", [phone |-> phone], r)
    /\ UNCHANGED <<users, nextID>>
    /\ UNCHANGED <<composerVars, calls, hostVars>>

UserByFederatedIDCall ==
    /\ ret = Nil
    /\ \E provider \in {ProviderF}, id \in FederatedIDs :
         \E r \in UserByFederatedID(users, provider, id) :
           ret' = Answered("UserByFederatedID",
                           [sid |-> FederatedSID(provider, id)], r)
    /\ UNCHANGED <<users, nextID>>
    /\ UNCHANGED <<composerVars, calls, hostVars>>

(***************************************************************************)
(* FetchUsers                                                               *)
(***************************************************************************)

\* The code point of a character, which the sort on username compares.
CharCode(c) ==
    CASE c = "*" -> 42 [] c = "+" -> 43 [] c = "." -> 46 [] c = "1" -> 49
      [] c = "2" -> 50 [] c = ":" -> 58 [] c = "@" -> 64 [] c = "A" -> 65
      [] c = "B" -> 66 [] c = "F" -> 70 [] c = "a" -> 97 [] c = "b" -> 98
      [] c = "f" -> 102 [] c = "o" -> 111 [] c = "p" -> 112 [] c = "x" -> 120
      [] OTHER -> 0

RECURSIVE StringLessEq(_, _)
\* a <= b in the binary order of strings.
StringLessEq(a, b) ==
    IF a = <<>> THEN TRUE
    ELSE IF b = <<>> THEN FALSE
    ELSE IF Head(a) # Head(b) THEN CharCode(Head(a)) < CharCode(Head(b))
    ELSE StringLessEq(Tail(a), Tail(b))

RECURSIVE SortByUsername(_)
\* SetSort({username: 1}): the documents by ascending username.
SortByUsername(docs) ==
    IF docs = {} THEN <<>>
    ELSE LET first == CHOOSE d \in docs :
                          \A e \in docs : StringLessEq(d.Username, e.Username)
         IN  <<first>> \o SortByUsername(docs \ {first})

\* The error of a query whose regular expression does not compile.
ErrRegex == [error |-> "mongo: regular expression is invalid"]

\* coll.CountDocuments(ctx, q) for a valid filter.
CountDocuments(docs, filterString) ==
    Cardinality(FindByUsernamePattern(docs, filterString))

\* coll.Find(ctx, q, findOptions) and curr.All for a valid filter and
\* skip, limit >= 0: the sorted matches after the first `skip`, at most
\* `limit` of them; the database takes the limit 0 as no limit.
Find(docs, filterString, skip, limit) ==
    LET sorted == SortByUsername(FindByUsernamePattern(docs, filterString))
        last == IF limit = 0 \/ skip + limit > Len(sorted)
                THEN Len(sorted) ELSE skip + limit
    IN  SubSeq(sorted, skip + 1, last)

\* FetchUsers returning an error whenever the page and the total disagree.
FetchUsersResult_Checked(usersData, total) ==
    IF Len(usersData) > total
    THEN [users |-> <<>>, total |-> 0, err |-> [error |-> "inconsistent"]]
    ELSE [users |-> usersData, total |-> total, err |-> Nil]

\* What FetchUsers returns for the page and the total it read
\* (lines 481-485).
FetchUsersResult(usersData, total) ==
    [users |-> usersData, total |-> total, err |-> Nil]

\* What FetchUsers returns when a query fails (lines 463, 473, 478).
FetchUsersFailure(err) == [users |-> <<>>, total |-> 0, err |-> err]

\* FetchUsers(filterString, skip, limit) with nothing else running.
FetchUsers(docs, filterString, skip, limit) ==
    IF ~ValidPattern(filterString) THEN FetchUsersFailure(ErrRegex)
    ELSE FetchUsersResult(Find(docs, filterString, skip, limit),
                          CountDocuments(docs, filterString))

\* The arguments of FetchUsers.
FetchFilters == {Empty, <<"b", "o">>, <<"B">>, <<"*">>}
FetchSkips == 0..MaxSkip
FetchLimits == 0..MaxLimit

FetchUsersCall ==
    /\ ret = Nil
    /\ \E filterString \in FetchFilters, skip \in FetchSkips,
          limit \in FetchLimits :
         LET r == FetchUsers(users, filterString, skip, limit) IN
         ret' = [ op |-> "FetchUsers",
                  args |-> [filter |-> filterString, skip |-> skip,
                            limit |-> limit],
                  user |-> Nil, err |-> r.err,
                  users |-> r.users, total |-> r.total ]
    /\ UNCHANGED <<users, nextID>>
    /\ UNCHANGED <<composerVars, calls, hostVars>>

QueryNext ==
    \/ AddNewUserCall
    \/ AddUserByNameAndPasswordCall
    \/ AddUserByPhoneCall
    \/ AddUserWithFederatedIDCall
    \/ DeleteUserCall
    \/ UserExistsCall
    \/ UserByIDCall
    \/ UserByEmailCall
    \/ UserByPhoneCall
    \/ UserByFederatedIDCall
    \/ FetchUsersCall
    \/ Return

QuerySpec == StorageSpecInit /\ [][QueryNext]_vars

\* C12: UserExists(name) is true exactly when some stored user's Username
\* equals name ignoring letter case, for every name, the names with pattern
\* characters included.
C12_UserExistsIsExactMatch ==
    (ret # Nil /\ ret.op = "UserExists") =>
        (ret.exists <=>
            \E d \in users : ToLower(d.Username) = ToLower(ret.args.Username))

\* The lookups by key.
LookupOps == {"UserByID", "UserByEmail", "UserByPhone", "UserByFederatedID"}

\* C13: UserByID, UserByEmail, UserByPhone and UserByFederatedID return
\* model.ErrUserNotFound when the key is well formed and no stored user
\* matches it.
C13_LookupsReturnNotFound ==
    ( /\ ret # Nil
      /\ ret.op \in LookupOps
      /\ ret.user = Nil
      /\ ret.err \notin {ErrInvalidHex, ErrorWrongDataFormat} )
    => ret.err = ErrUserNotFound

\* C14: every operation that returns a User returns it with an empty
\* PasswordHash: the lookups, UserByNamePassword, each User of a FetchUsers
\* page, AddNewUser and the Add* constructors, UpdateUser.
C14_ReturnedUsersHaveNoHash ==
    ret # Nil =>
        /\ ret.user # Nil => ret.user.Pswd = Empty
        /\ ret.op = "FetchUsers" =>
               \A i \in 1..Len(ret.users) : ret.users[i].Pswd = Empty

\* The stored users whose Username matches the filter of FetchUsers.
MatchingUsers(filterString) == FindByUsernamePattern(users, filterString)

\* How many matching users come before d in ascending Username order.
RankOf(d, filterString) ==
    Cardinality({e \in MatchingUsers(filterString) :
                    e # d /\ StringLessEq(e.Username, d.Username)})

\* C16: with nothing else running, FetchUsers(filter, skip, limit) returns
\* the users matching the filter at positions skip+1 .. skip+limit of their
\* ascending Username order, and total = the number of all matching users.
C16_FetchUsersPage ==
    (ret # Nil /\ ret.op = "FetchUsers" /\ ret.err = Nil) =>
        LET matching == MatchingUsers(ret.args.filter)
            skip == ret.args.skip
            limit == ret.args.limit
            rest == IF Cardinality(matching) > skip
                    THEN Cardinality(matching) - skip ELSE 0
        IN  /\ ret.total = Cardinality(matching)
            /\ Len(ret.users) = IF rest < limit THEN rest ELSE limit
            /\ \A i \in 1..Len(ret.users) :
                 /\ ret.users[i] \in matching
                 /\ RankOf(ret.users[i], ret.args.filter) = skip + i - 1

(***************************************************************************)
(* Part 5.  The admin handlers for users                                    *)
(***************************************************************************)

\* The pagination defaults and the length limits of registrationData.
defaultUserSkip == 0
defaultUserLimit == 20
MinLength == 6
MaxLength == 50

\* The statuses the handlers answer with.
StatusOK == "200 OK"
StatusBadRequest == "400 Bad Request"
StatusNotFound == "404 Not Found"
StatusInternalServerError == "500 Internal Server Error"

\* Names and passwords of registration requests: of a valid length, and too
\* short.
BobBob == <<"b", "o", "b", "b", "o", "b">>
BobBobUpper == <<"B", "O", "B", "b", "o", "b">>
PasswordLong == <<"p", "p", "p", "p", "p", "p">>

\* A user name one character longer than validate admits.
NameTooLong == [i \in 1..(MaxLength + 1) |-> "b"]

\* A TFAInfo with two-factor authentication enabled.
SomeTFA == [IsEnabled |-> TRUE, Secret |-> <<"s">>]

\* user.Sanitize(): the password hash and the TFA secret are cleared; the
\* field Sanitized records that it was applied.
Sanitize(u) ==
    [f \in DOMAIN u \cup {"Sanitized"} |->
        IF f = "Sanitized" THEN TRUE
        ELSE IF f = "Pswd" THEN Empty
        ELSE IF f = "TFAInfo" THEN [u.TFAInfo EXCEPT !.Secret = Empty]
        ELSE u[f]]

\* ar.Error(w, err, status, ...): an answer without any User.
Error(status) == [status |-> status, users |-> <<>>, total |-> Nil]

\* ar.ServeJSON(w, status, body) for a body holding the Users `served`.
ServeJSON(status, served, total) ==
    [status |-> status, users |-> served, total |-> total]

\* What a handler did: the collection after it and its answer.
Handled(docs, n, response) ==
    [users |-> docs, nextID |-> n, response |-> response]

\* registrationData.validate.
validate(rd) ==
    /\ Len(rd.Username) >= MinLength /\ Len(rd.Username) <= MaxLength
    /\ Len(rd.Password) >= MinLength /\ Len(rd.Password) <= MaxLength

\* GetUser serializing the user as the storage returned it.
admin_GetUser_Unsanitized(docs, id) ==
    { IF r.err # Nil
      THEN Error(IF r.err = ErrUserNotFound THEN StatusNotFound
                 ELSE StatusInternalServerError)
      ELSE ServeJSON(StatusOK, <<r.user>>, Nil) : r \in UserByID(docs, id) }

\* Router.GetUser: the answers it can give for the route variable id.
admin_GetUser(docs, id) ==
    { IF r.err # Nil
      THEN Error(IF r.err = ErrUserNotFound THEN StatusNotFound
                 ELSE StatusInternalServerError)
      ELSE ServeJSON(StatusOK, <<Sanitize(r.user)>>, Nil) :
      r \in UserByID(docs, id) }

\* Router.FetchUsers for the search string and what parseSkipAndLimit made
\* of the query.
admin_FetchUsers(docs, filterStr, page) ==
    IF page.err THEN Error(StatusBadRequest)
    ELSE LET r == FetchUsers(docs, filterStr, page.skip, page.limit) IN
         IF r.err # Nil THEN Error(StatusInternalServerError)
         ELSE ServeJSON(StatusOK,
                        [i \in 1..Len(r.users) |-> Sanitize(r.users[i])],
                        r.total)

\* The error of a query the database does not answer before the context
\* of the call times out.
ErrDeadlineExceeded == [error |-> "context deadline exceeded"]

\* Router.CreateUser removing the user again when setting the TFA data
\* fails.
admin_CreateUser_Undoes(docs, n, rd, strong, timesOut) ==
    IF ~validate(rd) \/ ~strong THEN Handled(docs, n, Error(StatusBadRequest))
    ELSE
      LET added == AddUserByNameAndPassword(docs, n, rd.Username, rd.Password)
      IN  IF added.err # Nil
          THEN Handled(added.users, added.nextID, Error(StatusBadRequest))
          ELSE
            LET user == [added.user EXCEPT !.TFAInfo = rd.TFAInfo]
                updated == UpdateUser(added.users, added.nextID, user.ID, user)
            IN  IF timesOut \/ updated.err # Nil
                THEN Handled(docs, added.nextID,
                             Error(StatusInternalServerError))
                ELSE Handled(updated.users, updated.nextID,
                             ServeJSON(StatusOK, <<Sanitize(updated.user)>>, Nil))

\* Router.CreateUser for the parsed registrationData rd; strong is the
\* verdict of model.StrongPswd, timesOut says that the database does not
\* answer the FindOneAndUpdate of UpdateUser in time.
admin_CreateUser(docs, n, rd, strong, timesOut) ==
    IF ~validate(rd) \/ ~strong THEN Handled(docs, n, Error(StatusBadRequest))
    ELSE
      LET added == AddUserByNameAndPassword(docs, n, rd.Username, rd.Password)
      IN  IF added.err # Nil
          THEN Handled(added.users, added.nextID, Error(StatusBadRequest))
          ELSE
            LET user == [added.user EXCEPT !.TFAInfo = rd.TFAInfo]
                updated ==
                  IF timesOut
                  THEN Outcome(added.users, added.nextID, Nil, ErrDeadlineExceeded)
                  ELSE UpdateUser(added.users, added.nextID, user.ID, user)
            IN  IF updated.err # Nil
                THEN Handled(updated.users, updated.nextID,
                             Error(StatusInternalServerError))
                ELSE Handled(updated.users, updated.nextID,
                             ServeJSON(StatusOK, <<Sanitize(updated.user)>>, Nil))

\* Router.UpdateUser for the route variable id and the parsed user u: every
\* (collection, answer) it can end with.
admin_UpdateUser(docs, n, id, u) ==
    { IF e.err # Nil
      THEN Handled(docs, n, Error(StatusInternalServerError))
      ELSE
        LET merged == IF u.TFAInfo.IsEnabled = e.user.TFAInfo.IsEnabled
                      THEN [u EXCEPT !.TFAInfo =
                               [IsEnabled |-> e.user.TFAInfo.IsEnabled,
                                Secret |-> e.user.TFAInfo.Secret]]
                      ELSE u
            updated == UpdateUser(docs, n, id, merged)
        IN  IF updated.err # Nil
            THEN Handled(updated.users, updated.nextID,
                         Error(StatusInternalServerError))
            ELSE Handled(updated.users, updated.nextID,
                         ServeJSON(StatusOK, <<Sanitize(updated.user)>>, Nil)) :
      e \in UserByID(docs, id) }

\* Router.DeleteUser.
admin_DeleteUser(docs, n, id) ==
    LET deleted == DeleteUser(docs, n, id) IN
    IF deleted.err # Nil
    THEN Handled(deleted.users, deleted.nextID, Error(StatusInternalServerError))
    ELSE Handled(deleted.users, deleted.nextID, ServeJSON(StatusOK, <<>>, Nil))

\* The requests the handlers receive.
RegistrationData ==
    [ Username : {BobBob, BobBobUpper, Bob, NameTooLong},
      Password : {PasswordLong, PasswordP},
      TFAInfo : {NoTFA, SomeTFA} ]
PageQueries ==
    {[skip |-> defaultUserSkip, limit |-> defaultUserLimit, err |-> FALSE],
     [skip |-> defaultUserSkip, limit |-> defaultUserLimit, err |-> TRUE]}
        \cup [skip : FetchSkips, limit : FetchLimits, err : {FALSE}]
ParsedUsers ==
    { UserData(0, BobBob, MailUpper, Empty, Empty, <<>>),
      [UserData(0, Bob, Empty, Empty, PasswordHash(PasswordQ), <<>>)
          EXCEPT !.TFAInfo = SomeTFA] }

\* The record in ret of a handled request.
Responded(op, args, response) ==
    [ op |-> op, args |-> args, user |-> Nil, err |-> Nil,
      status |-> response.status, users |-> response.users,
      total |-> response.total ]

GetUserHandler ==
    /\ ret = Nil
    /\ \E id \in UserIDs : \E response \in admin_GetUser(users, id) :
         ret' = Responded("admin.GetUser", [id |-> id], response)
    /\ UNCHANGED <<users, nextID>>
    /\ UNCHANGED <<composerVars, calls, hostVars>>

FetchUsersHandler ==
    /\ ret = Nil
    /\ \E filterStr \in FetchFilters, page \in PageQueries :
         ret' = Responded("admin.FetchUsers",
                          [filter |-> filterStr, page |-> page],
                          admin_FetchUsers(users, filterStr, page))
    /\ UNCHANGED <<users, nextID>>
    /\ UNCHANGED <<composerVars, calls, hostVars>>

CreateUserHandler ==
    /\ ret = Nil
    /\ \E rd \in RegistrationData, strong \in BOOLEAN, timesOut \in BOOLEAN :
         LET h == admin_CreateUser(users, nextID, rd, strong, timesOut) IN
         /\ h.nextID <= MaxUsers
         /\ users' = h.users
         /\ nextID' = h.nextID
         /\ ret' = Responded("admin.CreateUser",
                              [rd |-> rd, strong |-> strong], h.response)
    /\ UNCHANGED <<composerVars, calls, hostVars>>

UpdateUserHandler ==
    /\ ret = Nil
    /\ \E id \in UserIDs, u \in ParsedUsers :
         \E h \in admin_UpdateUser(users, nextID, id, u) :
           /\ users' = h.users
           /\ nextID' = h.nextID
           /\ ret' = Responded("admin.UpdateUser", [id |-> id, user |-> u],
                               h.response)
    /\ UNCHANGED <<composerVars, calls, hostVars>>

DeleteUserHandler ==
    /\ ret = Nil
    /\ \E id \in UserIDs :
         LET h == admin_DeleteUser(users, nextID, id) IN
         /\ users' = h.users
         /\ nextID' = h.nextID
         /\ ret' = Responded("admin.DeleteUser", [id |-> id], h.response)
    /\ UNCHANGED <<composerVars, calls, hostVars>>

AdminNext ==
    \/ GetUserHandler
    \/ FetchUsersHandler
    \/ CreateUserHandler
    \/ UpdateUserHandler
    \/ DeleteUserHandler
    \/ Return

AdminSpec == StorageSpecInit /\ [][AdminNext]_vars

\* Was Sanitize applied to the served user?
IsSanitized(u) ==
    /\ "Sanitized" \in DOMAIN u
    /\ u.Sanitized
    /\ u.Pswd = Empty
    /\ u.TFAInfo.Secret = Empty

\* C15: every User that GetUser, FetchUsers, CreateUser or UpdateUser of the
\* admin router writes into a response had Sanitize applied to it before.
C15_ServedUsersAreSanitized ==
    ret # Nil => \A i \in 1..Len(ret.users) : IsSanitized(ret.users[i])

\* C15 witness: the FetchUsers handler served a page of two users whose
\* stored records carry a password hash.
C15_Witness ==
    /\ ret # Nil
    /\ ret.op = "admin.FetchUsers"
    /\ ret.status = StatusOK
    /\ Len(ret.users) = 2
    /\ \A d \in users : d.Pswd # Empty

(***************************************************************************)
(* Part 6.  FetchUsers next to writers                                      *)
(*                                                                          *)
(* A goroutine runs FetchUsers as its two queries, CountDocuments and Find, *)
(* while another client adds and deletes users.                             *)
(***************************************************************************)

\* The goroutine that fetches.
Fetcher == "g1"

\* Goroutine p calls FetchUsers and runs CountDocuments (lines 456-464).
FetchCount(p) ==
    /\ calls[p] = Nil
    /\ \E filterString \in FetchFilters, skip \in FetchSkips,
          limit \in FetchLimits :
         LET call == [ op |-> "FetchUsers",
                       args |-> [filter |-> filterString, skip |-> skip,
                                 limit |-> limit],
                       pc |-> "find", total |-> 0, users |-> <<>>,
                       err |-> Nil ]
         IN  IF ~ValidPattern(filterString)
             THEN calls' = [calls EXCEPT ![p] =
                      [call EXCEPT !.pc = "done", !.err = ErrRegex]]
             ELSE calls' = [calls EXCEPT ![p] =
                      [call EXCEPT
                          !.total = CountDocuments(users, filterString)]]
    /\ UNCHANGED <<users, nextID, ret>>
    /\ UNCHANGED <<composerVars, hostVars>>

\* Goroutine p runs Find and returns the page with the total it counted
\* (lines 466-485).
FetchFind(p) ==
    /\ calls[p] # Nil
    /\ calls[p].op = "FetchUsers"
    /\ calls[p].pc = "find"
    /\ LET a == calls[p].args
           r == FetchUsersResult(Find(users, a.filter, a.skip, a.limit),
                                 calls[p].total)
       IN  calls' = [calls EXCEPT ![p] =
               [@ EXCEPT !.pc = "done", !.users = r.users,
                         !.total = r.total, !.err = r.err]]
    /\ UNCHANGED <<users, nextID, ret>>
    /\ UNCHANGED <<composerVars, hostVars>>

\* The caller of goroutine p has taken the result of FetchUsers.
FetchReturn(p) ==
    /\ calls[p] # Nil
    /\ calls[p].op = "FetchUsers"
    /\ calls[p].pc = "done"
    /\ calls' = [calls EXCEPT ![p] = Nil]
    /\ UNCHANGED <<users, nextID, ret>>
    /\ UNCHANGED <<composerVars, hostVars>>

FetchNext ==
    \/ FetchCount(Fetcher)
    \/ FetchFind(Fetcher)
    \/ FetchReturn(Fetcher)
    \/ AddNewUserCall
    \/ DeleteUserCall
    \/ Return

FetchSpec == StorageSpecInit /\ [][FetchNext]_vars

\* C17: FetchUsers takes its total from the collection as it is at the count
\* and its page from the collection as it is at the later Find, and returns
\* the two as they are, without an error, also when users were added or
\* deleted in between.
C17_CountAndPageAreSeparate ==
    [][ /\ ( /\ calls[Fetcher] = Nil
             /\ calls'[Fetcher] # Nil
             /\ calls'[Fetcher].pc = "find" )
           => calls'[Fetcher].total =
                  Cardinality(MatchingUsers(calls'[Fetcher].args.filter))
        /\ ( /\ calls[Fetcher] # Nil
             /\ calls[Fetcher].pc = "find"
             /\ calls'[Fetcher] # calls[Fetcher] )
           => /\ calls'[Fetcher].pc = "done"
              /\ calls'[Fetcher].err = Nil
              /\ calls'[Fetcher].total = calls[Fetcher].total
              /\ calls'[Fetcher].users =
                     Find(users, calls[Fetcher].args.filter,
                          calls[Fetcher].args.skip, calls[Fetcher].args.limit)
      ]_vars

\* C17 witness: FetchUsers returned, without an error, a page that holds
\* more users than its total.
C17_Witness ==
    /\ calls[Fetcher] # Nil
    /\ calls[Fetcher].pc = "done"
    /\ calls[Fetcher].err = Nil
    /\ Len(calls[Fetcher].users) > calls[Fetcher].total

(***************************************************************************)
(* Part 7.  UpdateLoginMetadata                                             *)
(*                                                                          *)
(* Each goroutine parses the ID and then runs one FindOneAndUpdate; the     *)
(* database applies an update of one document atomically.                   *)
(***************************************************************************)

\* The values time.Now().Unix() takes.
Times == {1, 2}

\* FindOneAndUpdate writing a fixed num_of_logins instead of incrementing.
UpdateLoginDocument_SetsOne(docs, id, now) ==
    {[d EXCEPT !.NumOfLogins = 1, !.LatestLoginTime = now] :
        d \in {e \in docs : e.ID = id}}
        \cup {e \in docs : e.ID # id}

\* FindOneAndUpdate with $set latest_login_time and $inc num_of_logins on
\* the document with that _id (lines 512-521): the collection after it.
UpdateLoginDocument(docs, id, now) ==
    {[d EXCEPT !.NumOfLogins = @ + 1, !.LatestLoginTime = now] :
        d \in {e \in docs : e.ID = id}}
        \cup {e \in docs : e.ID # id}

\* Goroutine p calls UpdateLoginMetadata(userID) and parses the ID; a
\* malformed one is logged and the call is over (lines 506-510).
LoginStart(p) ==
    /\ calls[p] = Nil
    /\ \E id \in UserIDs :
         calls' = [calls EXCEPT ![p] =
             [ op |-> "UpdateLoginMetadata", id |-> id,
               pc |-> IF id = 0 THEN "done" ELSE "update",
               logged |-> IF id = 0 THEN ErrInvalidHex ELSE Nil ]]
    /\ UNCHANGED <<users, nextID, ret>>
    /\ UNCHANGED <<composerVars, hostVars>>

\* Goroutine p runs its FindOneAndUpdate; the error of Decode is logged
\* (lines 520-523).
LoginUpdate(p) ==
    /\ calls[p] # Nil
    /\ calls[p].op = "UpdateLoginMetadata"
    /\ calls[p].pc = "update"
    /\ \A d \in users : d.ID = calls[p].id => d.NumOfLogins < MaxLogins
    /\ \E now \in Times :
         users' = UpdateLoginDocument(users, calls[p].id, now)
    /\ calls' = [calls EXCEPT ![p] =
           [@ EXCEPT !.pc = "done",
                     !.logged = IF \E d \in users : d.ID = calls[p].id
                                THEN Nil ELSE ErrNoDocuments]]
    /\ UNCHANGED <<nextID, ret>>
    /\ UNCHANGED <<composerVars, hostVars>>

\* UpdateLoginMetadata of goroutine p is over; it returns nothing.
LoginReturn(p) ==
    /\ calls[p] # Nil
    /\ calls[p].op = "UpdateLoginMetadata"
    /\ calls[p].pc = "done"
    /\ calls' = [calls EXCEPT ![p] = Nil]
    /\ UNCHANGED <<users, nextID, ret>>
    /\ UNCHANGED <<composerVars, hostVars>>

LoginNext ==
    \/ \E p \in Procs : LoginStart(p)
    \/ \E p \in Procs : LoginUpdate(p)
    \/ \E p \in Procs : LoginReturn(p)
    \/ AddUserByPhoneCall
    \/ AddUserWithFederatedIDCall
    \/ DeleteUserCall
    \/ Return

LoginSpec == StorageSpecInit /\ [][LoginNext]_vars

\* The sum of NumOfLogins over the stored users.
RECURSIVE TotalLogins(_)
TotalLogins(docs) ==
    IF docs = {} THEN 0
    ELSE LET d == CHOOSE e \in docs : TRUE
         IN  d.NumOfLogins + TotalLogins(docs \ {d})

\* C18: the update step of UpdateLoginMetadata(id) raises NumOfLogins of the
\* stored user id by exactly 1 and sets its LatestLoginTime in one step,
\* whatever other calls are in progress, and changes nothing else; for a
\* malformed ID or an unknown user no record changes, and the call hands
\* nothing to its caller.
C18_LoginCountedOnce ==
    [][\A p \in Procs :
         ( /\ calls'[p] # calls[p]
           /\ \/ calls[p] # Nil /\ calls[p].op = "UpdateLoginMetadata"
              \/ calls'[p] # Nil /\ calls'[p].op = "UpdateLoginMetadata" )
         => IF /\ calls[p] # Nil
               /\ calls[p].pc = "update"
               /\ \E d \in users : d.ID = calls[p].id
            THEN \E d \in users, e \in users' :
                   /\ d.ID = calls[p].id
                   /\ e.ID = d.ID
                   /\ e.NumOfLogins = d.NumOfLogins + 1
                   /\ e.LatestLoginTime \in Times
                   /\ [e EXCEPT !.NumOfLogins = d.NumOfLogins,
                                !.LatestLoginTime = d.LatestLoginTime] = d
                   /\ users' \ {e} = users \ {d}
                   /\ TotalLogins(users') = TotalLogins(users) + 1
            ELSE users' = users
      ]_vars

\* C18 witness: two goroutines were updating the login metadata of the same
\* user at once, and the user's NumOfLogins has reached 2.
C18_Witness ==
    /\ \A p \in Procs :
         /\ calls[p] # Nil
         /\ calls[p].op = "UpdateLoginMetadata"
         /\ calls[p].pc = "done"
         /\ calls[p].logged = Nil
    /\ \E d \in users :
         /\ \A p \in Procs : calls[p].id = d.ID
         /\ d.NumOfLogins = 2
         /\ d.LatestLoginTime \in Times

\* C19: a successful UpdateUser(id, user) stores and returns the user under
\* ID = id, whatever ID the supplied value carried, creates no user and
\* changes no other user's record; when no user has that id or the value is
\* not the backend's own User type, it fails and the store is unchanged.
C19_UpdateUserPreservesIdentity ==
    [][ ( /\ ret = Nil
          /\ ret' # Nil
          /\ ret'.op = "UpdateUser" )
        => LET id == ret'.args.id IN
           IF ret'.err = Nil
           THEN /\ ret'.user.ID = id
                /\ ret'.user \in users'
                /\ \E d \in users : d.ID = id
                /\ IsOwnUser(ret'.args.user)
                /\ {e \in users' : e.ID # id} = {d \in users : d.ID # id}
                /\ Cardinality(users') = Cardinality(users)
           ELSE /\ ret'.user = Nil
                /\ users' = users
      ]_vars

\* C19 witness: UpdateUser(1, user carrying the ID 2) succeeded while user 2
\* is stored, and the updated user has the ID 1.
C19_Witness ==
    /\ ret # Nil
    /\ ret.op = "UpdateUser"
    /\ ret.err = Nil
    /\ ret.args.id = 1
    /\ ret.args.user.ID = 2
    /\ ret.user.ID = 1
    /\ \E d \in users : d.ID = 2
    /\ \E d \in users : d.ID = 1 /\ d = ret.user

\* C20: ImportJSON takes the records of the array in order; each record it
\* inserts is stored with the hash of the record's inbound pswd value; at the
\* first record whose AddNewUser fails it returns that error, no later record
\* is inserted, and the records inserted before the failure stay stored.
C20_ImportStopsAtFirstFailure ==
    [][ ( /\ ret = Nil
          /\ ret' # Nil
          /\ ret'.op = "ImportJSON" )
        => LET ud == ret'.args.data
               k == Cardinality(users') - Cardinality(users)
           IN  /\ users \subseteq users'
               /\ k \in 0..Len(ud)
               /\ nextID' = nextID + k
               /\ \A i \in 1..k :
                    \E d \in users' \ users :
                      /\ d.ID = nextID + i
                      /\ d.Username = ud[i].Username
                      /\ d.Phone = ud[i].Phone
                      /\ d.Email = ToLower(ud[i].Email)
                      /\ d.Pswd = PasswordHash(ud[i].Pswd)
               /\ IF ret'.err = Nil
                  THEN k = Len(ud)
                  ELSE /\ k < Len(ud)
                       /\ AddNewUser(users', nextID',
                                     [ud[k + 1] EXCEPT !.Pswd = Empty],
                                     ud[k + 1].Pswd).err = ret'.err
      ]_vars

\* C20 witness: an import of two records has returned an error while its
\* first record is stored, under the first ID, with the hash of its inbound
\* pswd, and its second record is not.
C20_Witness ==
    /\ ret # Nil
    /\ ret.op = "ImportJSON"
    /\ ret.err # Nil
    /\ Len(ret.args.data) = 2
    /\ nextID = 1
    /\ \E d \in users :
         /\ users = {d}
         /\ d.ID = 1
         /\ d.Username = ret.args.data[1].Username
         /\ d.Pswd = PasswordHash(ret.args.data[1].Pswd)
         /\ d.Username # ret.args.data[2].Username

(***************************************************************************)
(* Part 8.  The demo host: main, initServer and the plugin subprocess.      *)
(***************************************************************************)

\* os.Exit(code), which log.Fatal calls too: the process ends at once and
\* the deferred calls are not run.
os_Exit(sub) == [hostPC |-> "exited", deferred |-> <<>>, subprocess |-> sub]

\* client.Kill(): ends the plugin process when it runs.
client_Kill(sub) == IF sub = "running" THEN "killed" ELSE sub

RECURSIVE RunDeferred(_, _)
\* The deferred calls of main run, the last deferred first; gives the state
\* of the plugin process after them.
RunDeferred(calls_, sub) ==
    IF calls_ = <<>> THEN sub
    ELSE RunDeferred(Tail(calls_),
                     IF Head(calls_) = "client.Kill" THEN client_Kill(sub)
                     ELSE sub)

\* A panic in main, or main returning: the deferred calls run, then the
\* process ends.
Unwind(calls_, sub) ==
    [hostPC |-> "exited", deferred |-> <<>>,
     subprocess |-> RunDeferred(calls_, sub)]

\* The fields of the host set from a record h.
HostBecomes(h) ==
    /\ hostPC' = h.hostPC
    /\ deferred' = h.deferred
    /\ subprocess' = h.subprocess

\* main up to `defer client.Kill()`: plugin.NewClient configures the client
\* and starts nothing.
MainNewClient ==
    /\ hostPC = "main"
    /\ hostPC' = "client.Client"
    /\ deferred' = <<"client.Kill">> \o deferred
    /\ UNCHANGED <<subprocess, composerVars, storageVars>>

\* rpcClient, err := client.Client(): starts the plugin process, does the
\* handshake and connects.  It fails with no process left (the command
\* cannot start, or the handshake fails and the library kills the process),
\* or with the process running (the connection cannot be made); on an error
\* main calls os.Exit(1).
MainClient ==
    /\ hostPC = "client.Client"
    /\ \E outcome \in {"connected", "start failed", "connect failed"} :
         HostBecomes(
           CASE outcome = "connected" ->
                  [hostPC |-> "rpcClient.Dispense", deferred |-> deferred,
                   subprocess |-> "running"]
             [] outcome = "start failed" -> os_Exit(subprocess)
             [] outcome = "connect failed" -> os_Exit("running"))
    /\ UNCHANGED <<composerVars, storageVars>>

\* raw, err := rpcClient.Dispense("user_storage") and the type assertion
\* raw.(shared.UserStorage): an error ends in os.Exit(1), a value of another
\* type panics, otherwise plugins.UserStorage is the dispensed storage.
MainDispense ==
    /\ hostPC = "rpcClient.Dispense"
    /\ \E outcome \in {"dispensed", "error", "other type"} :
         /\ HostBecomes(
              CASE outcome = "dispensed" ->
                     [hostPC |-> "initServer", deferred |-> deferred,
                      subprocess |-> subprocess]
                [] outcome = "error" -> os_Exit(subprocess)
                [] outcome = "other type" -> Unwind(deferred, subprocess))
         /\ plugins' = IF outcome = "dispensed"
                       THEN [UserStorage |-> PluginUserStorage]
                       ELSE plugins
    /\ UNCHANGED <<settings, partials, composer, dc, failing, result, invoked>>
    /\ UNCHANGED storageVars

\* s := initServer(plugins) and `defer s.Close()`: boltdb.NewServer builds
\* the database composer and composes the storages; on an error initServer
\* calls log.Fatal.  The imports that follow are only logged.
MainInitServer ==
    /\ hostPC = "initServer"
    /\ \E fails \in SUBSET {BoltdbComposeSteps[i] : i \in 1..Len(BoltdbComposeSteps)} :
         LET d == boltdb_NewComposer(settings, plugins)
             composed == boltdb_Compose(d, fails)
         IN  /\ dc' = d
             /\ failing' = fails
             /\ result' = composed.result
             /\ invoked' = composed.invoked
             /\ HostBecomes(
                  IF composed.result.err # Nil THEN os_Exit(subprocess)
                  ELSE [hostPC |-> "http.ListenAndServe",
                        deferred |-> <<"s.Close">> \o deferred,
                        subprocess |-> subprocess])
    /\ UNCHANGED <<settings, plugins, partials, composer>>
    /\ UNCHANGED storageVars

\* log.Fatal(http.ListenAndServe(port, s.Router())): ListenAndServe returns
\* only with an error, and log.Fatal ends the process.
MainListenAndServe ==
    /\ hostPC = "http.ListenAndServe"
    /\ HostBecomes(os_Exit(subprocess))
    /\ UNCHANGED <<composerVars, storageVars>>

HostInit ==
    /\ settings \in AllSettings
    /\ plugins = [UserStorage |-> Nil]
    /\ partials = <<>>
    /\ composer = Nil
    /\ dc = Nil
    /\ failing = {}
    /\ result = Nil
    /\ invoked = <<>>
    /\ StorageInit
    /\ HostIdle

HostNext ==
    \/ MainNewClient
    \/ MainClient
    \/ MainDispense
    \/ MainInitServer
    \/ MainListenAndServe

HostSpec == HostInit /\ [][HostNext]_vars

\* C21: when the host process has ended after the plugin client was created,
\* the plugin subprocess is not running any more.
C21_SubprocessKilledBeforeHostEnds ==
    hostPC = "exited" => subprocess # "running"

\* C22: Router.CreateUser writes twice, and not atomically: when the second
\* write (UpdateUser setting the TFA info) fails, the answer is an internal
\* error while the user the first write created stays stored, without the
\* TFA info, so that the same request made again is refused because the user
\* exists; when the length validation or the password-strength check fails,
\* nothing is written.
C22_CreateUserIsNotAtomic ==
    [][ ( /\ ret = Nil
          /\ ret' # Nil
          /\ ret'.op = "admin.CreateUser" )
        => LET rd == ret'.args.rd
               strong == ret'.args.strong
               again == AddUserByNameAndPassword(users', nextID',
                                                 rd.Username, rd.Password)
           IN  /\ ( ~validate(rd) \/ ~strong )
                     => /\ ret'.status = StatusBadRequest
                        /\ users' = users
                        /\ nextID' = nextID
               /\ ret'.status = StatusInternalServerError
                     => /\ validate(rd) /\ strong
                        /\ \E d \in users' \ users :
                             /\ users' = users \cup {d}
                             /\ d.Username = rd.Username
                             /\ d.Pswd = PasswordHash(rd.Password)
                             /\ d.TFAInfo = NoTFA
                        /\ again.err = ErrorUserExists
                        /\ \A timesOut \in BOOLEAN :
                             LET h == admin_CreateUser(users', nextID', rd,
                                                       strong, timesOut)
                             IN  /\ h.response.status = StatusBadRequest
                                 /\ h.users = users'
      ]_vars

\* C22 witness: CreateUser with TFA info in the request has answered with an
\* internal error while a user of the requested name is stored without it.
C22_Witness ==
    /\ ret # Nil
    /\ ret.op = "admin.CreateUser"
    /\ ret.status = StatusInternalServerError
    /\ ret.args.rd.TFAInfo = SomeTFA
    /\ \E d \in users :
         /\ d.Username = ret.args.rd.Username
         /\ d.TFAInfo = NoTFA

(***************************************************************************)
(* Part 9.  Stored emails: the operations that write an email, and          *)
(* UserByEmail.                                                             *)
(***************************************************************************)

EmailNext ==
    \/ AddNewUserCall
    \/ AddUserByNameAndPasswordCall
    \/ AddUserWithFederatedIDCall
    \/ ImportJSONCall
    \/ UpdateUserCall
    \/ UserByEmailCall
    \/ Return

EmailSpec == StorageSpecInit /\ [][EmailNext]_vars

\* C23: after any sequence of AddNewUser, AddUserByNameAndPassword,
\* AddUserWithFederatedID, ImportJSON and UpdateUser calls every stored
\* user's Email is in lower case; UserByEmail rejects the empty string with
\* ErrorWrongDataFormat and, for every case variant of a stored user's
\* email, returns that user.
C23_StoredEmailsAreLowerCase ==
    /\ \A d \in users : d.Email = ToLower(d.Email)
    /\ UserByEmail(users, Empty) = {[user |-> Nil, err |-> ErrorWrongDataFormat]}
    /\ \A d \in users, e \in LookupEmails :
         ( /\ d.Email # Empty
           /\ e # Empty
           /\ ToLower(e) = ToLower(d.Email) )
         => UserByEmail(users, e) = {[user |-> d, err |-> Nil]}
    /\ ( /\ ret # Nil
         /\ ret.op = "UserByEmail" )
       => IF ret.args.email = Empty
          THEN ret.err = ErrorWrongDataFormat
          ELSE ( \E d \in users : ToLower(d.Email) = ToLower(ret.args.email) )
               => /\ ret.err = Nil
                  /\ ret.user \in users
                  /\ ret.user.Email = ToLower(ret.args.email)

\* C23 witness: a user registered with an email in upper case is stored
\* with it in lower case, and UserByEmail has found the user by the
\* upper-case spelling.
C23_Witness ==
    /\ ret # Nil
    /\ ret.op = "UserByEmail"
    /\ ret.args.email = MailUpper
    /\ ret.err = Nil
    /\ ret.user \in users
    /\ ret.user.Email = MailLower
    /\ MailLower # MailUpper

====
